---- MODULE Spec2Model ----
(***************************************************************************)
(* A model of stpipe's Step: how the configuration of a Step is merged     *)
(* from its sources (step.py build_config, cmdline.py                      *)
(* just_the_step_from_cmdline) and the lifecycle of Step.run.              *)
(***************************************************************************)
EXTENDS Integers, Sequences, FiniteSets, TLC

VARIABLES
    \* ---- configuration building ----
    cin,          \* the inputs of one construction (fragments, flags)
    cpc,          \* "start" | "done" | "failed"
    handed,       \* the kwargs handed to the Step constructor
    attrs,        \* the attributes of the constructed Step
    crdsQueries,  \* number of calls of crds_client.get_reference_file
    cexc,         \* the exception that left the construction: <<>> or <<e>>
    call,         \* the call of a method or function that is followed
    ret,          \* what it returned: <<>> before it has, <<v>> after
    \* ---- Step instances ----
    skip, save_results, output_file, suffix, input_filename,
    reference_files_used,   \* per step: the list bound to _reference_files_used
    log_records,            \* per step: id of the list bound to _log_records
    nPre, nPost,            \* per step: lengths of _pre_hooks and _post_hooks
    \* ---- logging ----
    lists,        \* heap of record lists, by id
    handlers,     \* ids of the lists whose capture handler is installed
    \* ---- Step.run ----
    frame,        \* per thread: the local state of its call of run
    trace,        \* per thread: the calls run made (hooks, process, finalize, save)
    runs,         \* number of calls of run so far
    runLimit,     \* number of calls of run that are followed
    \* ---- Step.call ----
    applied,      \* LogConfig.applied: <<>> or <<the configuration applied>>
    stack,        \* the calls of Step.call under way, the innermost last
    logops,       \* the calls, returns, apply() and undo() so far
    ncalls        \* number of calls of Step.call so far

cvars == <<cin, cpc, handed, attrs, crdsQueries, cexc, call, ret>>
svars == <<skip, save_results, output_file, suffix, input_filename,
           reference_files_used, log_records, nPre, nPost>>
lvars == <<lists, handlers>>
rvars == <<frame, trace, runs, runLimit>>
kvars == <<applied, stack, logops, ncalls>>
vars  == <<cvars, svars, lvars, rvars, kvars>>

None == "None"

(***************************************************************************)
(* Exceptions.  The message is the sequence of its words, so that the      *)
(* test of a text in a message is a test of a run of words.                *)
(***************************************************************************)
Exc(type, msg) == [type |-> type, msg |-> msg, cause |-> <<>>]

\* raise new from e
ChainedTo(new, e) == [new EXCEPT !.cause = <<e>>]

\* sub in msg
Contains(sub, msg) ==
    \E j \in 1..(Len(msg) - Len(sub) + 1) :
        SubSeq(msg, j, j + Len(sub) - 1) = sub

(***************************************************************************)
(*                      CONFIGURATION  BUILDING                            *)
(***************************************************************************)

\* The parameter keys followed through the merge (Step.spec).
Keys == {"output_dir", "save_results", "suffix"}

Sources == {"crds", "file", "kw", "cli"}

\* A configuration value: the text and whether it is a FromCommandLine.
Plain(v) == [v |-> v, cl |-> FALSE]

FromCommandLine(v) == [v |-> v, cl |-> TRUE]

\* Step.spec: the defaults of the three keys.
SchemaDefault(k) == IF k = "save_results" THEN "False" ELSE None

\* The text a source gives for a key.  Sources never agree by accident,
\* so the value of the result tells which source won.
SrcVal(src, k) ==
    IF k = "save_results"
    THEN (IF src \in {"crds", "kw"} THEN "True" ELSE "False")
    ELSE
        CASE src = "crds" -> "crds_" \o k
          [] src = "file" -> "file_" \o k
          [] src = "kw"   -> "kw_" \o k
          [] OTHER        -> "cli_" \o k

\* The fragment of a source that has the keys ks.
Fragment(src, ks) == [k \in ks |-> Plain(SrcVal(src, k))]

EmptyConfig == [k \in {} |-> Plain(None)]

\* config_parser.merge_config(into, new): leaves of new overwrite, missing
\* keys are added.
merge_config(into, new) ==
    [k \in (DOMAIN into) \cup (DOMAIN new) |->
        IF k \in DOMAIN new THEN new[k] ELSE into[k]]

\* config_parser.validate: every schema key missing from the config gets
\* its default; values keep their provenance.
validate(config) ==
    [k \in Keys |-> IF k \in DOMAIN config THEN config[k]
                                            ELSE Plain(SchemaDefault(k))]

truths == {"true", "True", "t", "yes", "y"}

\* The explicit flag given to get_disable_crds_steppars.
DefNone == [t |-> "none", b |-> FALSE, s |-> ""]

DefBool(b) == [t |-> "bool", b |-> b, s |-> ""]

DefStr(s) == [t |-> "str", b |-> FALSE, s |-> s]

Truthy(d) == \/ (d.t = "bool" /\ d.b)
             \/ (d.t = "str" /\ d.s # "")

get_disable_crds_steppars_anystr(default, env) ==
    IF Truthy(default) THEN TRUE ELSE env \in truths

get_disable_crds_steppars_noenv(default, env) ==
    IF Truthy(default)
    THEN (IF default.t = "bool" THEN default.b ELSE default.s \in truths)
    ELSE FALSE

get_disable_crds_steppars(default, env) ==
    IF Truthy(default)
    THEN (IF default.t = "bool" THEN default.b ELSE default.s \in truths)
    ELSE env \in truths

\* What the reference service raises when the lookup fails.
CrdsError == Exc("CrdsError", <<"lookup", "failed">>)

get_config_from_reference_uncaught(dataset, disable, env, answer, crdsKeys) ==
    LET d1 == IF dataset = "unopenable" THEN DefBool(TRUE) ELSE disable
        d2 == IF d1.t = "none" THEN get_disable_crds_steppars(DefNone, env)
                               ELSE Truthy(d1)
    IN  IF d2
        THEN [frag |-> EmptyConfig, asked |-> 0, exc |-> <<>>]
        ELSE IF answer = "found"
             THEN [frag |-> Fragment("crds", crdsKeys), asked |-> 1, exc |-> <<>>]
             ELSE IF answer = "err"
                  THEN [frag |-> EmptyConfig, asked |-> 1, exc |-> <<CrdsError>>]
                  ELSE [frag |-> EmptyConfig, asked |-> 1, exc |-> <<>>]

\* Step.get_config_from_reference(dataset, disable): dataset is "ok" or
\* "unopenable" (reading its parameters raises OSError, TypeError or
\* ValueError), answer is what the reference service does when asked: it
\* names a parameter file ("found"), answers "N/A" ("na") or raises a
\* CrdsError ("err").  Gives the fragment, whether the service was asked
\* and the exception that leaves the method.
get_config_from_reference(dataset, disable, env, answer, crdsKeys) ==
    LET d1 == IF dataset = "unopenable" THEN DefBool(TRUE) ELSE disable
        d2 == IF d1.t = "none" THEN get_disable_crds_steppars(DefNone, env)
                               ELSE Truthy(d1)
    IN  IF d2
        THEN [frag |-> EmptyConfig, asked |-> 0, exc |-> <<>>]
        ELSE IF answer = "found"
             THEN [frag |-> Fragment("crds", crdsKeys), asked |-> 1, exc |-> <<>>]
             ELSE [frag |-> EmptyConfig, asked |-> 1, exc |-> <<>>]

\* The keys of the steps keyword argument that are tried.
StepKeys == {"sub1", "sub2"}

\* The config files a block of steps may name, and config_parser's
\* load_config_file of each: two declare the name of a step, one declares
\* a class and no name.
StepFiles == {"sub1.cfg", "sub2.cfg", "anon.cfg"}

load_config_file(f) ==
    CASE f = "sub1.cfg" -> [name |-> "sub1", class |-> "Sub1Step", suffix |-> "file_sfx"]
      [] f = "sub2.cfg" -> [name |-> "sub2", suffix |-> "file_sfx"]
      [] OTHER          -> [class |-> "OtherStep", skip |-> "True"]

\* d without the key k (del d[k], d.pop(k, None)).
Without(d, k) == [x \in (DOMAIN d) \ {k} |-> d[x]]

NameMismatch == Exc("ValueError", <<"Step", "name", "does", "not", "match">>)

merge_step_file_unchecked(step, pars) ==
    IF "config_file" \in DOMAIN pars
    THEN [cfg |-> merge_config(
                      Without(Without(load_config_file(pars["config_file"]),
                                      "name"), "class"),
                      pars),
          exc |-> <<>>]
    ELSE [cfg |-> pars, exc |-> <<>>]

\* build_config, lines 1415-1430: the block pars of the step key `step`,
\* merged over the config file it names.
merge_step_file(step, pars) ==
    IF "config_file" \in DOMAIN pars
    THEN LET cfgd == load_config_file(pars["config_file"])
         IN  IF "name" \in DOMAIN cfgd /\ cfgd["name"] # step
             THEN [cfg |-> cfgd, exc |-> <<NameMismatch>>]
             ELSE [cfg |-> merge_config(Without(Without(cfgd, "name"), "class"),
                                        pars),
                   exc |-> <<>>]
    ELSE [cfg |-> pars, exc |-> <<>>]

\* Step.build_config(input, **kwargs): CRDS, then the config file, then the
\* keyword arguments, among them the blocks of steps.
build_config(c) ==
    LET ref == IF c.input # "none"
               THEN get_config_from_reference(c.input, DefNone, c.env,
                                              c.answer, c.present["crds"])
               ELSE [frag |-> EmptyConfig, asked |-> 0, exc |-> <<>>]
        c1  == IF c.hasFile
               THEN merge_config(ref.frag, Fragment("file", c.present["file"]))
               ELSE ref.frag
        ms  == [k \in DOMAIN c.steps |-> merge_step_file(k, c.steps[k])]
        bad == { k \in DOMAIN ms : ms[k].exc # <<>> }
        c2  == merge_config(c1, Fragment("kw", c.present["kw"]))
    IN  [config |-> c2,
         steps |-> [k \in DOMAIN ms |-> ms[k].cfg],
         asked |-> ref.asked,
         exc |-> IF ref.exc # <<>> THEN ref.exc
                 ELSE IF bad # {} THEN ms[CHOOSE k \in bad : TRUE].exc
                 ELSE <<>>]

\* cmdline._override_config_from_args: every option given on the command
\* line overwrites the config, tagged FromCommandLine.
override_config_from_args(config, cliKeys) ==
    [k \in (DOMAIN config) \cup cliKeys |->
        IF k \in cliKeys THEN FromCommandLine(SrcVal("cli", k)) ELSE config[k]]

\* Step.from_config_section: validate, then hand plain values to the
\* constructor.
from_config_section(config) ==
    LET v == validate(config)
    IN  [k \in DOMAIN v |-> Plain(v[k].v)]

cmdline_config_crds_last(c) ==
    LET disable == get_disable_crds_steppars(DefBool(c.cliDisable), c.env)
        config  == override_config_from_args(
                       IF c.hasFile THEN Fragment("file", c.present["file"])
                                    ELSE EmptyConfig,
                       c.present["cli"])
        ref     == get_config_from_reference(c.input, DefBool(disable), c.env,
                                             c.answer, c.present["crds"])
    IN  IF c.input # "none"
        THEN [config |-> merge_config(config, ref.frag), asked |-> ref.asked,
              exc |-> <<>>]
        ELSE [config |-> config, asked |-> 0, exc |-> <<>>]

\* cmdline.just_the_step_from_cmdline, from the parsed arguments to the
\* config given to from_config_section: an exception of the lookup is
\* caught when it is an OSError.
cmdline_config(c) ==
    LET disable == get_disable_crds_steppars(DefBool(c.cliDisable), c.env)
        config  == override_config_from_args(
                       IF c.hasFile THEN Fragment("file", c.present["file"])
                                    ELSE EmptyConfig,
                       c.present["cli"])
        ref     == get_config_from_reference(c.input, DefBool(disable), c.env,
                                             c.answer, c.present["crds"])
    IN  IF c.input # "none"
        THEN IF ref.exc = <<>>
             THEN [config |-> IF DOMAIN config # {}
                              THEN merge_config(ref.frag, config) ELSE ref.frag,
                   asked |-> ref.asked, exc |-> <<>>]
             ELSE IF ref.exc[1].type \in {"FileNotFoundError", "OSError"}
                  THEN [config |-> config, asked |-> ref.asked, exc |-> <<>>]
                  ELSE [config |-> config, asked |-> ref.asked, exc |-> ref.exc]
        ELSE [config |-> config, asked |-> 0, exc |-> <<>>]

\* The values of the environment variable STPIPE_DISABLE_CRDS_STEPPARS
\* that are tried ("" stands for the variable being absent).
EnvVals == {"", "true", "y", "false"}

\* No call is followed.
NoCall == [fn |-> "none"]

\* No steps keyword argument.
NoSteps == [k \in {} |-> EmptyConfig]

\* The inputs of one construction.
ConfigInputs ==
    { c \in [path : {"call", "cmdline"},
             present : [Sources -> SUBSET Keys],
             hasFile : BOOLEAN,
             env : EnvVals,
             cliDisable : BOOLEAN,
             input : {"none", "ok", "unopenable"},
             answer : {"found", "na", "err"},
             steps : {NoSteps}] :
        /\ c.path = "call" => c.present["cli"] = {} /\ ~c.cliDisable
        /\ c.path = "cmdline" => c.present["kw"] = {}
        /\ ~c.hasFile => c.present["file"] = {}
        /\ c.input # "ok" => c.answer = "na" }

NoConfig == [k \in Keys |-> Plain(None)]

\* Step.call, up to the constructed instance: build_config, then
\* from_config_section, whose values become the attributes.
CallConstruct ==
    /\ cpc = "start"
    /\ cin.path = "call"
    /\ LET b == build_config(cin)
           h == from_config_section(b.config)
       IN  /\ crdsQueries' = crdsQueries + b.asked
           /\ cexc' = b.exc
           /\ IF b.exc # <<>>
              THEN /\ cpc' = "failed"
                   /\ UNCHANGED <<handed, attrs>>
              ELSE /\ cpc' = "done"
                   /\ handed' = [k \in Keys \cup {"steps"} |->
                                    IF k = "steps" THEN b.steps ELSE h[k]]
                   /\ attrs' = h
    /\ UNCHANGED <<cin, call, ret, svars, lvars, rvars, kvars>>

(***************************************************************************)
(*                          STEP  INSTANCES                                *)
(***************************************************************************)

\* Three instances: P and Q share no parent, C is a child of P.
Steps == {"P", "C", "Q"}

parent(s) == IF s = "C" THEN "P" ELSE None

\* str.lower() on the names of the instances.
lower(n) == CASE n = "P" -> "p" [] n = "C" -> "c" [] n = "Q" -> "q" [] OTHER -> n

\* Step.default_suffix
suffix_as_named(s) == s

default_suffix(s) == lower(s)

\* Step.search_attr(attribute) without parent_first: the nearest value that
\* is not None, from the step up to the root; attr is the attribute of
\* every step.
RECURSIVE search_attr(_, _)
search_attr(attr, s) ==
    IF attr[s] # None THEN attr[s]
    ELSE IF parent(s) = None THEN None
    ELSE search_attr(attr, parent(s))

(***************************************************************************)
(* Values.  An object is named by a string; a value is one object or a     *)
(* list of objects.                                                        *)
(***************************************************************************)
Scalar(o) == [isList |-> FALSE, items |-> <<o>>]

List(os) == [isList |-> TRUE, items |-> os]

NoneV == Scalar(None)

\* Raised is no value of the program: it marks a call that raised.
Raised == Scalar("<raised>")

IsStr(o) ==
    o \in {"a.fits", "abc.fits", "dir/abc.fits", "nofile", "ok", "unopenable"}

\* isinstance(o, AbstractDataModel)
IsModel(o) == o \in {"m"}

\* isinstance(o, AbstractModelLibrary)
IsLibrary(o) == o \in {"lib"}

\* run, line 622: the results that go through save_model.
ToSaveModel(o) == IsModel(o) \/ IsLibrary(o)

\* hasattr(o, "save")
HasSave(o) == o \in {"m", "sv"}

\* o.meta.filename
MetaFilename(o) == IF o = "m" THEN "m.fits" ELSE None

\* What a hook that returns something returns: an object of its own.
PreHookValue(i) == Scalar(IF i = 1 THEN "h1" ELSE IF i = 2 THEN "h2" ELSE "h3")

PostHookValue(i) == Scalar(IF i = 1 THEN "g1" ELSE IF i = 2 THEN "g2" ELSE "g3")

\* The argument tuples run is called with.
ArgTuples == { <<>>, <<Scalar("a.fits")>>, <<Scalar("m"), Scalar("a.fits")>> }

\* What process may return.
ProcResults ==
    { Scalar("m"), Scalar("pl"), Scalar("lib"), List(<<"m", "sv">>),
      List(<<"m">>), List(<<"pl", "sv">>) }

\* What the interpreter raises when process is called with one argument
\* too many, and with one too few.
TooManyArgs ==
    Exc("TypeError", <<"MyStep.", "process()", "takes", "2", "positional",
                       "arguments", "but", "3", "were", "given">>)

\* A TypeError of the body of process with the older wording of the
\* count of arguments.
TakesExactly ==
    Exc("TypeError", <<"process()", "takes", "exactly", "2", "arguments",
                       "(3", "given)">>)

\* What process may raise: the two above, the interpreter's TypeError for
\* one argument too few, another TypeError and a ValueError.
ProcExceptions ==
    { TooManyArgs, TakesExactly,
      Exc("TypeError", <<"MyStep.", "process()", "missing", "1", "required",
                         "positional", "argument:", "'input'">>),
      Exc("TypeError", <<"unsupported", "operand", "type(s)">>),
      Exc("ValueError", <<"bad", "value">>) }

\* What _make_output_path raises when no extension can be found.
NoneHasNoStartswith ==
    Exc("AttributeError", <<"'NoneType'", "object", "has", "no", "attribute",
                            "'startswith'">>)

IncorrectNumber ==
    Exc("TypeError", <<"Incorrect", "number", "of", "arguments", "to", "step">>)

\* run, lines 580-583: the exception that leaves run when process raised e.
ProcessErrorUnchanged(e) == e

ProcessError(e) ==
    IF e.type = "TypeError" /\ Contains(<<"process()", "takes", "exactly">>, e.msg)
    THEN ChainedTo(IncorrectNumber, e)
    ELSE e

\* An entry of _reference_files_used, with the step whose process asked
\* for the file and the run it asked in.
RefEntry(s, n) == [type |-> "flat", uri |-> "crds://flat.fits", by |-> s, run |-> n]

\* A log record, with its emitter and the run it was emitted in.
LogRecord(s, n, msg) == [by |-> s, run |-> n, msg |-> msg]

\* An entry of the trace of a run.
Event(ev, i, in, out) ==
    [ev |-> ev, i |-> i, in |-> in, out |-> out, objs |-> <<>>, refs |-> <<>>]

(***************************************************************************)
(* The skipped step marks its input.                                       *)
(***************************************************************************)

\* Step.class_alias is None unless the class of the step declares one;
\* the class of the child C does.
class_alias(s) == IF s = "C" THEN "c_step" ELSE None

\* A model "m" has the slot meta.cal_step; "bare" has no such slot, and
\* the setattr on "strict" raises an exception of another kind.
NoCalStep ==
    Exc("AttributeError", <<"'Meta'", "object", "has", "no", "attribute",
                            "'cal_step'">>)

SlotRefuses == Exc("ValueError", <<"SKIPPED", "is", "not", "valid">>)

TupleIndex == Exc("IndexError", <<"tuple", "index", "out", "of", "range">>)

\* setattr(model.meta.cal_step, alias, "SKIPPED"): what it raises, if
\* anything.
setattr_cal_step(o) ==
    CASE o = "bare"   -> <<NoCalStep>>
      [] o = "strict" -> <<SlotRefuses>>
      [] OTHER        -> <<>>

\* set_skipped with an except clause for every exception.
set_skipped_catch_all(o) ==
    IF setattr_cal_step(o) = <<>>
    THEN [marked |-> <<o>>, logged |-> <<>>, exc |-> <<>>]
    ELSE [marked |-> <<>>, logged |-> <<o>>, exc |-> <<>>]

\* set_skipped, lines 558-565: the AttributeError is logged, any other
\* exception leaves the function.
set_skipped(o) ==
    LET e == setattr_cal_step(o)
    IN  IF e = <<>> THEN [marked |-> <<o>>, logged |-> <<>>, exc |-> <<>>]
        ELSE IF e[1].type = "AttributeError"
        THEN [marked |-> <<>>, logged |-> <<o>>, exc |-> <<>>]
        ELSE [marked |-> <<>>, logged |-> <<>>, exc |-> e]

\* set_skipped on the members one after the other, up to the first that
\* raises: the list comprehension of line 571.
RECURSIVE set_skipped_each(_, _)
set_skipped_each(os, acc) ==
    IF os = <<>> \/ acc.exc # <<>> THEN acc
    ELSE LET r == set_skipped(Head(os))
         IN  set_skipped_each(Tail(os),
                 [marked |-> acc.marked \o r.marked,
                  logged |-> acc.logged \o r.logged,
                  exc    |-> r.exc])

\* AbstractModelLibrary.map_function with set_skipped, consumed by list():
\* the function is applied to the members in their order.
map_function_set_skipped(os, acc) == set_skipped_each(os, acc)

\* The first argument as the skipped step sees it: kind is "library" for
\* an AbstractModelLibrary, "sequence" for a data model that is a
\* Sequence, "model" for another data model, "list" for a list or tuple
\* and "other" for the rest.
SkipInput(kind, members) == [kind |-> kind, members |-> members]

\* run, lines 553-574, for the arguments args of a step with the given
\* class_alias: the objects marked, those logged, the result and the
\* exception.
skip_branch(alias, args) ==
    LET none == [marked |-> <<>>, logged |-> <<>>, exc |-> <<>>]
        r == IF alias = None THEN none
             ELSE IF Len(args) = 0 THEN [none EXCEPT !.exc = <<TupleIndex>>]
             ELSE IF args[1].kind = "library"
             THEN map_function_set_skipped(args[1].members, none)
             ELSE IF args[1].kind \in {"sequence", "model"}
             THEN set_skipped_each(args[1].members, none)
             ELSE none
    IN  IF r.exc # <<>> THEN [marked |-> r.marked, logged |-> r.logged,
                             result |-> <<>>, exc |-> r.exc]
        ELSE IF Len(args) = 0
        THEN [marked |-> <<>>, logged |-> <<>>, result |-> <<>>,
              exc |-> <<TupleIndex>>]
        ELSE [marked |-> r.marked, logged |-> r.logged,
              result |-> <<args[1]>>, exc |-> <<>>]

\* The first argument of a run as the skipped step sees it.
AsSkipInput(v) ==
    IF v.isList THEN SkipInput("list", v.items)
    ELSE IF IsModel(v.items[1]) THEN SkipInput("model", v.items)
    ELSE SkipInput("other", v.items)

(***************************************************************************)
(*                              LOGGING                                    *)
(***************************************************************************)

\* A handler appends the record to its list while it is installed.
Emit(ls, hs, rec) ==
    [id \in DOMAIN ls |-> IF id \in hs THEN Append(ls[id], rec) ELSE ls[id]]

\* log.record_logs, entering: a new list, whose handler is installed.
RecordLogsEnter(hs, id) == hs \cup {id}

\* log.record_logs, leaving: the handler is removed.
RecordLogsExit(hs, id) == hs \ {id}

\* The with statement of run: the capture is left on every way out of
\* its block, raising or not.
ExitRunNormalOnly(hs, id, raising) ==
    IF raising THEN hs ELSE RecordLogsExit(hs, id)

ExitRun(hs, id, raising) == RecordLogsExit(hs, id)

(***************************************************************************)
(*                              Step.run                                   *)
(***************************************************************************)
MaxHooks == 2

MaxRuns == 2

AllThreads == {1, 2}

\* The threads of the sequential specification.
RunThreads == {1}

IdleFrame ==
    [pc |-> "idle", step |-> None, args |-> <<>>, i |-> 0,
     result |-> NoneV, cap |-> 0, n |-> 0, skip0 |-> FALSE]

Resting(t) == frame[t].pc \in {"idle", "returned", "raised"}

\* The lists some step or handler still refers to.
Live(lr, hs) == { lr[s] : s \in Steps } \cup hs

\* The exception of a call is swallowed and run goes on to its return.
RaiseSwallowed(t, ev) ==
    /\ frame' = [frame EXCEPT ![t].pc = "exit"]
    /\ trace' = [trace EXCEPT ![t] = Append(@, ev)]
    /\ handlers' = handlers

\* An exception leaves run: the with block is left, the frame is over.
Raise(t, ev) ==
    /\ frame' = [frame EXCEPT ![t].pc = "raised"]
    /\ trace' = [trace EXCEPT ![t] = Append(Append(@, ev),
                                        Event("raise", 0, <<>>, Raised))]
    /\ handlers' = ExitRun(handlers, frame[t].cap, TRUE)

\* The exception exc leaves run, after the call ev that raised.
RaiseExc(t, ev, exc) ==
    /\ frame' = [frame EXCEPT ![t].pc = "raised"]
    /\ trace' = [trace EXCEPT ![t] = Append(Append(@, ev),
                                        Event("raise", 0, <<exc>>, Raised))]
    /\ handlers' = ExitRun(handlers, frame[t].cap, TRUE)

\* Step.set_primary_input(obj, exclusive=False): the name is set whatever
\* the step or an ancestor has.
set_primary_input_not_exclusive(ifn, s, v) ==
    IF ~v.isList /\ IsStr(v.items[1]) THEN [ifn EXCEPT ![s] = v.items[1]]
    ELSE IF ~v.isList /\ IsModel(v.items[1])
         THEN [ifn EXCEPT ![s] = MetaFilename(v.items[1])]
         ELSE ifn

\* Step.set_primary_input(obj) with exclusive=True: the new
\* _input_filename of every step.
set_primary_input(ifn, s, v) ==
    IF search_attr(ifn, s) = None
    THEN IF ~v.isList /\ IsStr(v.items[1])
         THEN [ifn EXCEPT ![s] = v.items[1]]
         ELSE IF ~v.isList /\ IsModel(v.items[1])
              THEN [ifn EXCEPT ![s] = MetaFilename(v.items[1])]
              ELSE ifn
    ELSE ifn

\* just_the_step_from_cmdline, line 310: the positional arguments, the
\* input file first when there is one.
positional(c) == IF c.input = "none" THEN <<>> ELSE <<c.input>>

\* just_the_step_from_cmdline, lines 354-356: save_results of the step
\* built, whose attributes are h.
save_results_kept(args, h) == h

save_results_of_positional(args, h) ==
    IF Len(args) > 0 THEN [h EXCEPT !["save_results"] = Plain("True")] ELSE h

\* just_the_step_from_cmdline: the merged config is handed to the
\* constructor; with a positional argument the primary input and
\* save_results of the step built, the outermost P, are then set.
JustTheStepFromCmdline ==
    /\ cpc = "start"
    /\ cin.path = "cmdline"
    /\ LET b == cmdline_config(cin)
           h == from_config_section(b.config)
       IN  /\ crdsQueries' = crdsQueries + b.asked
           /\ cexc' = b.exc
           /\ IF b.exc # <<>>
              THEN /\ cpc' = "failed"
                   /\ UNCHANGED <<handed, attrs, input_filename>>
              ELSE /\ cpc' = "done"
                   /\ handed' = h
                   /\ attrs' = save_results_of_positional(positional(cin), h)
                   /\ input_filename' =
                          IF Len(positional(cin)) > 0
                          THEN set_primary_input(input_filename, "P",
                                                 Scalar(positional(cin)[1]))
                          ELSE input_filename
    /\ UNCHANGED <<cin, call, ret, skip, save_results, output_file, suffix,
                   reference_files_used, log_records, nPre, nPost, lvars,
                   rvars, kvars>>

\* run, line 503: self._log_records = log_records
BindLogRecordsOfClass(lr, s, id) == [x \in Steps |-> id]

BindLogRecords(lr, s, id) == [lr EXCEPT ![s] = id]

\* run, lines 530-531: an output file forces save_results.
ForceSaveResultsNever(of, sr) == sr

ForceSaveResults(of, sr) == IF of # None THEN TRUE ELSE sr

\* run, lines 539-540: what a pre-hook returned becomes the only
\* argument, unless it is None.
PreHookArgsAlways(args, out) == <<out>>

PreHookArgs(args, out) == IF out # NoneV THEN <<out>> ELSE args

\* run, lines 591-592: what a post-hook returned becomes the result,
\* unless it is None.
PostHookResultAlways(result, out) == out

PostHookResult(result, out) == IF out # NoneV THEN out ELSE result

\* run, lines 548-551: skip of an outermost step is set to False.
StandaloneSkipKept(s, sk) == sk

StandaloneSkipOfAll(s, sk) == FALSE

StandaloneSkip(s, sk) == IF parent(s) = None /\ sk THEN FALSE ELSE sk

\* run, lines 619-621: the idx the j-th result is saved with, the position
\* enumerate gives it, or None (-1) when there is one result at most.
SaveIdxByPosition(items, j) == j - 1

SaveIdx(items, j) == IF Len(items) <= 1 THEN -1 ELSE j - 1

\* run, line 612: whether results are saved.
SaveWantedWhenSkipped(sk, sr) == sr

SaveWanted(sk, sr) == ~sk /\ sr

\* run, lines 595-596: a model library is finalized by its own
\* finalize_result, any other result by that of the step.
FinalizeBy(v) ==
    IF ~v.isList /\ IsLibrary(v.items[1]) THEN "library" ELSE "step"

\* run, lines 595-607: the objects finalize_result is called with.  A str
\* is a Sequence: it is finalized character by character.
FinalizeTargets(v) ==
    IF v.isList THEN v.items
    ELSE IF v.items[1] = "a.fits" THEN <<"a", ".", "f", "i", "t", "s">>
    ELSE v.items

\* run, lines 614-617: the objects to save.
ResultsToSave(v) == v.items

\* run, lines 500-534: the capture starts, the primary input, save_results
\* and suffix are settled.
RunStart(t, s, a) ==
    /\ Resting(t)
    /\ runs < runLimit
    /\ LET id == Cardinality(Steps) + runs + 1
           hs == RecordLogsEnter(handlers, id)
           lr == BindLogRecords(log_records, s, id)
           keep == Live(lr, hs)
           ls == [x \in keep |-> IF x \in DOMAIN lists THEN lists[x] ELSE <<>>]
       IN  /\ handlers' = hs
           /\ log_records' = lr
           /\ lists' = Emit(ls, hs, LogRecord(s, runs + 1, "running"))
           /\ frame' = [frame EXCEPT ![t] =
                  [pc |-> IF nPre[s] > 0 THEN "pre" ELSE "main", step |-> s,
                   args |-> a, i |-> 1, result |-> NoneV, cap |-> id,
                   n |-> runs + 1, skip0 |-> skip[s]]]
    /\ input_filename' = IF Len(a) > 0
                         THEN set_primary_input(input_filename, s, a[1])
                         ELSE input_filename
    /\ save_results' = [save_results EXCEPT
                           ![s] = ForceSaveResults(output_file[s], @)]
    /\ suffix' = [suffix EXCEPT ![s] = IF @ = None THEN default_suffix(s) ELSE @]
    /\ trace' = [trace EXCEPT ![t] = <<Event("run", 0, a, NoneV)>>]
    /\ runs' = runs + 1
    /\ UNCHANGED <<cvars, skip, output_file, reference_files_used, nPre, nPost,
                   runLimit, kvars>>

\* run, lines 536-540: one pre-hook.
PreHook(t) ==
    LET f == frame[t]
        s == f.step
    IN  /\ f.pc = "pre"
        /\ f.i <= nPre[s]
        /\ \E out \in {NoneV, PreHookValue(f.i), Raised} :
              IF out = Raised
              THEN /\ Raise(t, Event("pre", f.i, f.args, Raised))
                   /\ UNCHANGED <<cvars, svars, lists, runs, runLimit, kvars>>
              ELSE /\ frame' = [frame EXCEPT
                          ![t].args = PreHookArgs(f.args, out),
                          ![t].i = f.i + 1,
                          ![t].pc = IF f.i + 1 > nPre[s] THEN "main" ELSE "pre"]
                   /\ trace' = [trace EXCEPT
                          ![t] = Append(@, Event("pre", f.i, f.args, out))]
                   /\ UNCHANGED <<cvars, svars, lvars, runs, runLimit, kvars>>

ResetRefsNever(refs, s) == refs

\* The list as an attribute of the class: every instance loses its list.
ResetRefsOfClass(refs, s) == [x \in Steps |-> <<>>]

\* run, lines 543 and 609: self._reference_files_used = []
ResetRefs(refs, s) == [refs EXCEPT ![s] = <<>>]

\* run, lines 541-553: the list of reference files is reset, skip of an
\* outermost step is dropped, and skip decides the branch.
BeginMain(t) ==
    LET f == frame[t]
        s == f.step
        sk == StandaloneSkip(s, skip[s])
    IN  /\ f.pc = "main"
        /\ reference_files_used' = ResetRefs(reference_files_used, s)
        /\ skip' = [skip EXCEPT ![s] = sk]
        /\ frame' = [frame EXCEPT ![t].pc = IF sk THEN "skip" ELSE "process"]
        /\ UNCHANGED <<cvars, save_results, output_file, suffix, input_filename,
                       log_records, nPre, nPost, lvars, trace, runs, runLimit, kvars>>

\* run, lines 554-574: the skipped step marks its first argument, of which
\* the event keeps the objects marked, and gives it back.
SkipBranch(t) ==
    LET f == frame[t]
        s == f.step
        ls == Emit(lists, handlers, LogRecord(s, f.n, "skipped"))
    IN  /\ f.pc = "skip"
        /\ IF Len(f.args) = 0
           THEN /\ Raise(t, Event("skipbranch", 0, f.args, Raised))
                /\ lists' = ls
                /\ UNCHANGED <<cvars, svars, runs, runLimit, kvars>>
           ELSE /\ frame' = [frame EXCEPT
                       ![t].result = f.args[1],
                       ![t].i = 1,
                       ![t].pc = IF nPost[s] > 0 THEN "post" ELSE "finalize"]
                /\ trace' = [trace EXCEPT
                       ![t] = Append(@,
                           [Event("skipbranch", 0, f.args, f.args[1]) EXCEPT
                               !.objs = skip_branch(class_alias(s),
                                   <<AsSkipInput(f.args[1])>>).marked])]
                /\ lists' = ls
                /\ UNCHANGED <<cvars, svars, handlers, runs, runLimit, kvars>>

\* The exception exc leaves run, after the calls evs.
RaiseAfter(t, evs, exc) ==
    /\ frame' = [frame EXCEPT ![t].pc = "raised"]
    /\ trace' = [trace EXCEPT
           ![t] = @ \o evs \o <<Event("raise", 0, <<exc>>, Raised)>>]
    /\ handlers' = ExitRun(handlers, frame[t].cap, TRUE)

\* Step.prefetch_references and Step.reference_file_types are attributes
\* of the class: that of Q does not prefetch, that of P has no reference
\* file types.
prefetch_references(s) == s # "Q"

reference_file_types(s) == IF s = "P" THEN {} ELSE {"flat"}

\* prefetch without the test of the reference file types.
prefetch_any_types(s, args, sk) == Len(args) > 0 /\ ~sk

\* Step.prefetch(*args), lines 681-688: whether _precache_references is
\* called, with args[0].
prefetch(s, args, sk) ==
    Len(args) > 0 /\ reference_file_types(s) # {} /\ ~sk

\* run, lines 576-577: the calls of _precache_references before process.
Precached(s, args, sk) ==
    IF prefetch_references(s) /\ prefetch(s, args, sk)
    THEN <<Event("precache", 0, <<args[1]>>, NoneV)>>
    ELSE <<>>

\* run, lines 575-583: the prefetch and process, which may ask for
\* reference files; the event keeps what it recorded.
ProcessOf(t, outs) ==
    LET f == frame[t]
        s == f.step
    IN  /\ f.pc = "process"
        /\ \E out \in outs, nrefs \in {0, 1} :
              /\ reference_files_used' = [reference_files_used EXCEPT ![s] =
                     IF nrefs = 1 THEN Append(@, RefEntry(s, f.n)) ELSE @]
              /\ IF out \in ProcExceptions
                 THEN /\ RaiseAfter(t,
                             Precached(s, f.args, skip[s])
                             \o <<[Event("process", 0, f.args, Raised)
                                      EXCEPT !.objs = <<out>>,
                                             !.refs = IF nrefs = 1
                                                      THEN <<RefEntry(s, f.n)>>
                                                      ELSE <<>>]>>,
                             ProcessError(out))
                      /\ UNCHANGED lists
                 ELSE /\ frame' = [frame EXCEPT
                             ![t].result = out,
                             ![t].i = 1,
                             ![t].pc = IF nPost[s] > 0 THEN "post" ELSE "finalize"]
                      /\ trace' = [trace EXCEPT
                             ![t] = Append(@ \o Precached(s, f.args, skip[s]),
                                 [Event("process", 0, f.args, out) EXCEPT
                                     !.refs = IF nrefs = 1
                                              THEN <<RefEntry(s, f.n)>>
                                              ELSE <<>>])]
                      /\ UNCHANGED lvars
        /\ UNCHANGED <<cvars, skip, save_results, output_file, suffix,
                       input_filename, log_records, nPre, nPost, runs, runLimit, kvars>>

Process(t) == ProcessOf(t, ProcResults \cup ProcExceptions)

\* run, lines 588-592: one post-hook.
PostHook(t) ==
    LET f == frame[t]
        s == f.step
    IN  /\ f.pc = "post"
        /\ f.i <= nPost[s]
        /\ \E out \in {NoneV, PostHookValue(f.i), Raised} :
              IF out = Raised
              THEN /\ Raise(t, Event("post", f.i, <<f.result>>, Raised))
                   /\ UNCHANGED <<cvars, svars, lists, runs, runLimit, kvars>>
              ELSE /\ frame' = [frame EXCEPT
                          ![t].result = PostHookResult(f.result, out),
                          ![t].i = f.i + 1,
                          ![t].pc = IF f.i + 1 > nPost[s] THEN "finalize" ELSE "post"]
                   /\ trace' = [trace EXCEPT
                          ![t] = Append(@, Event("post", f.i, <<f.result>>, out))]
                   /\ UNCHANGED <<cvars, svars, lvars, runs, runLimit, kvars>>

\* run, lines 594-612: the results are finalized with the list of the
\* reference files used, by the step or by the model library, the list is
\* reset, and saving is decided.
Finalize(t) ==
    LET f == frame[t]
        s == f.step
        ev == [ev |-> "finalize", i |-> 0, in |-> <<f.result>>, out |-> NoneV,
               objs |-> FinalizeTargets(f.result),
               refs |-> reference_files_used[s],
               by |-> FinalizeBy(f.result)]
    IN  /\ f.pc = "finalize"
        /\ \E ok \in BOOLEAN :
              IF ok
              THEN /\ reference_files_used' = ResetRefs(reference_files_used, s)
                   /\ frame' = [frame EXCEPT
                          ![t].i = 1,
                          ![t].pc = IF /\ SaveWanted(skip[s], save_results[s])
                                       /\ Len(ResultsToSave(f.result)) > 0
                                    THEN "save" ELSE "exit"]
                   /\ trace' = [trace EXCEPT ![t] = Append(@, ev)]
                   /\ UNCHANGED lvars
              ELSE /\ Raise(t, [ev EXCEPT !.out = Raised])
                   /\ UNCHANGED <<reference_files_used, lists>>
        /\ UNCHANGED <<cvars, skip, save_results, output_file, suffix,
                       input_filename, log_records, nPre, nPost, runs, runLimit, kvars>>

\* run, lines 619-638: one result is saved.  A data model goes through
\* save_model, where the AttributeError of make_output_path is not caught;
\* another object with a save method is saved unless no
\* output path can be made; any other object is passed over.
SaveResult(t) ==
    LET f == frame[t]
        s == f.step
        items == ResultsToSave(f.result)
        item == items[f.i]
        idx == SaveIdx(items, f.i)
        next == [frame EXCEPT ![t].i = f.i + 1,
                              ![t].pc = IF f.i + 1 > Len(items) THEN "exit"
                                                                ELSE "save"]
        saveEv(out) == Event("save", idx, <<Scalar(item)>>, out)
    IN  /\ f.pc = "save"
        /\ f.i <= Len(items)
        /\ \E outcome \in {"saved", "nopath", "raise"} :
              CASE ToSaveModel(item) /\ outcome = "saved" ->
                      /\ frame' = next
                      /\ trace' = [trace EXCEPT
                             ![t] = Append(@, saveEv(Scalar("saved")))]
                      /\ UNCHANGED lvars
                [] ToSaveModel(item) /\ outcome = "nopath" ->
                      /\ RaiseExc(t, saveEv(Raised), NoneHasNoStartswith)
                      /\ UNCHANGED lists
                [] ToSaveModel(item) /\ outcome = "raise" ->
                      /\ Raise(t, saveEv(Raised))
                      /\ UNCHANGED lists
                [] ~ToSaveModel(item) /\ HasSave(item) /\ outcome = "saved" ->
                      /\ frame' = next
                      /\ trace' = [trace EXCEPT
                             ![t] = Append(@, saveEv(Scalar("saved")))]
                      /\ UNCHANGED lvars
                [] ~ToSaveModel(item) /\ HasSave(item) /\ outcome = "nopath" ->
                      /\ frame' = next
                      /\ trace' = [trace EXCEPT
                             ![t] = Append(@, Event("nopath", idx,
                                                    <<Scalar(item)>>, NoneV))]
                      /\ UNCHANGED lvars
                [] ~ToSaveModel(item) /\ HasSave(item) /\ outcome = "raise" ->
                      /\ Raise(t, saveEv(Raised))
                      /\ UNCHANGED lists
                [] OTHER ->
                      /\ frame' = next
                      /\ UNCHANGED <<trace, lvars>>
        /\ UNCHANGED <<cvars, svars, runs, runLimit, kvars>>

\* run, lines 640-643: the capture ends and the result is returned.
RunReturn(t) ==
    LET f == frame[t]
        s == f.step
    IN  /\ f.pc = "exit"
        /\ lists' = IF ~skip[s]
                    THEN Emit(lists, handlers, LogRecord(s, f.n, "done"))
                    ELSE lists
        /\ handlers' = ExitRun(handlers, f.cap, FALSE)
        /\ frame' = [frame EXCEPT ![t].pc = "returned"]
        /\ trace' = [trace EXCEPT
               ![t] = Append(@, Event("return", 0, <<>>, f.result))]
        /\ UNCHANGED <<cvars, svars, runs, runLimit, kvars>>

(***************************************************************************)
(*                          SPECIFICATIONS                                 *)
(***************************************************************************)

\* No call of Step.call.
CallIdle ==
    /\ applied = <<>>
    /\ stack = <<>>
    /\ logops = <<>>
    /\ ncalls = 0

\* No Step is being built.
ConfigIdle ==
    /\ cin = [path |-> "call", present |-> [x \in Sources |-> {}],
              hasFile |-> FALSE, env |-> "", cliDisable |-> FALSE,
              input |-> "none", answer |-> "na", steps |-> NoSteps]
    /\ cpc = "idle"
    /\ handed = NoConfig
    /\ attrs = NoConfig
    /\ crdsQueries = 0
    /\ cexc = <<>>
    /\ call = NoCall
    /\ ret = <<>>

\* Instances as __init__ leaves them, all with the parameters given.
Constructed(sk, sr, of, sf, np, nq) ==
    /\ skip = [s \in Steps |-> sk]
    /\ save_results = [s \in Steps |-> sr]
    /\ output_file = [s \in Steps |-> of]
    /\ suffix = [s \in Steps |-> sf]
    /\ input_filename = [s \in Steps |-> None]
    /\ reference_files_used = [s \in Steps |-> <<>>]
    /\ log_records = [s \in Steps |->
                         CASE s = "P" -> 1 [] s = "C" -> 2 [] OTHER -> 3]
    /\ nPre = [s \in Steps |-> np]
    /\ nPost = [s \in Steps |-> nq]
    /\ lists = [id \in 1..Cardinality(Steps) |-> <<>>]
    /\ handlers = {}
    /\ frame = [t \in AllThreads |-> IdleFrame]
    /\ trace = [t \in AllThreads |-> <<>>]
    /\ runs = 0

InitConfig ==
    /\ cin \in ConfigInputs
    /\ cpc = "start"
    /\ handed = NoConfig
    /\ attrs = NoConfig
    /\ crdsQueries = 0
    /\ cexc = <<>>
    /\ call = NoCall
    /\ ret = <<>>
    /\ Constructed(FALSE, FALSE, None, None, 0, 0)
    /\ runLimit = 0
    /\ CallIdle

NextConfig == CallConstruct \/ JustTheStepFromCmdline

SpecConfig == InitConfig /\ [][NextConfig]_vars

\* The blocks of the steps keyword argument: each may name a config file,
\* redeclare name and class, and set a parameter.
Blocks ==
    { b \in UNION { [D -> StepFiles \cup StepKeys \cup {"OtherStep", "kw_sfx"}] :
                       D \in SUBSET {"config_file", "name", "class", "suffix"} } :
        /\ "config_file" \in DOMAIN b => b["config_file"] \in StepFiles
        /\ "name" \in DOMAIN b => b["name"] \in StepKeys
        /\ "class" \in DOMAIN b => b["class"] = "OtherStep"
        /\ "suffix" \in DOMAIN b => b["suffix"] = "kw_sfx" }

\* Step.call with a steps keyword argument and no input.
InitNested ==
    /\ \E st \in UNION { [D -> Blocks] : D \in SUBSET StepKeys } :
          cin = [path |-> "call", present |-> [x \in Sources |-> {}],
                 hasFile |-> FALSE, env |-> "", cliDisable |-> FALSE,
                 input |-> "none", answer |-> "na", steps |-> st]
    /\ cpc = "start"
    /\ handed = NoConfig
    /\ attrs = NoConfig
    /\ crdsQueries = 0
    /\ cexc = <<>>
    /\ call = NoCall
    /\ ret = <<>>
    /\ Constructed(FALSE, FALSE, None, None, 0, 0)
    /\ runLimit = 0
    /\ CallIdle

NextNested == CallConstruct

SpecNested == InitNested /\ [][NextNested]_vars

(***************************************************************************)
(* The parameters of a step.  An instance is the mapping of its attribute *)
(* names to their values; a boolean is written "True" or "False".         *)
(***************************************************************************)

\* The schema's type normalisation of a value (config_parser's
\* config_from_dict): a boolean parameter given as a word becomes a
\* boolean, any other value is kept.
Coerce(k, x) ==
    IF k = "save_results"
    THEN IF x.v \in {"True", "yes"} THEN Plain("True")
         ELSE IF x.v \in {"False", "no"} THEN Plain("False")
         ELSE x
    ELSE x

\* Step.get_pars(): the value of every key of the schema that the
\* instance has, normalised, with a FromCommandLine turned into a str.
get_pars(inst) ==
    [k \in Keys \cap DOMAIN inst |-> Plain(Coerce(k, inst[k]).v)]

update_pars_defaults(inst, parameters) ==
    [k \in DOMAIN inst |->
        IF k \in DOMAIN parameters /\ k \in DOMAIN get_pars(inst) /\ k # "steps"
        THEN Plain(SchemaDefault(k)) ELSE inst[k]]

update_pars_all(inst, parameters) ==
    [k \in (DOMAIN inst) \cup (DOMAIN parameters) |->
        IF k \in DOMAIN parameters THEN parameters[k] ELSE inst[k]]

\* Step.update_pars(parameters): the instance afterwards.  A parameter
\* that get_pars() has is assigned; any other is logged and ignored.
update_pars(inst, parameters) ==
    [k \in DOMAIN inst |->
        IF k \in DOMAIN parameters /\ k \in DOMAIN get_pars(inst) /\ k # "steps"
        THEN parameters[k] ELSE inst[k]]

\* A step with its child steps: pars are its attributes, steps is <<>>
\* for a step whose parameters have no key "steps" and else holds the
\* mapping of the names of its child steps to them.  The parameters given
\* to update_pars have the same shape.
StepTree(pars, steps) == [pars |-> pars, steps |-> steps]

\* The key "steps" taken as any other: the value is assigned.
update_pars_steps_assigned(inst, parameters) ==
    StepTree(update_pars(inst.pars, parameters.pars),
             IF parameters.steps = <<>> \/ inst.steps = <<>> THEN inst.steps
             ELSE parameters.steps)

\* Step.update_pars(parameters), lines 1355-1366, with the key "steps":
\* each child step named is given its own mapping.
RECURSIVE update_pars_steps(_, _)
update_pars_steps(inst, parameters) ==
    StepTree(update_pars(inst.pars, parameters.pars),
             IF parameters.steps = <<>> \/ inst.steps = <<>> THEN inst.steps
             ELSE <<[n \in DOMAIN inst.steps[1] |->
                       IF n \in DOMAIN parameters.steps[1]
                       THEN update_pars_steps(inst.steps[1][n],
                                              parameters.steps[1][n])
                       ELSE inst.steps[1][n]]>>)

\* The schema's check of a value (config_parser's validate): a boolean
\* parameter takes a boolean or one of the words for one.
Valid(k, x) ==
    k = "save_results" => x.v \in {"True", "False", "yes", "no"}

ValidationError(k) == Exc("ValidationError", <<"Config", "parameter", k>>)

\* Whether Step.get_pars() raises: a value of the instance fails the
\* schema's check.
get_pars_raises(inst) ==
    \E k \in Keys \cap DOMAIN inst : ~Valid(k, inst[k])

\* Step.update_pars(parameters), line 1355 first: the instance afterwards
\* and the exception raised.
update_pars_or_raise(inst, parameters) ==
    IF get_pars_raises(inst)
    THEN [inst |-> inst,
          exc |-> <<ValidationError(CHOOSE k \in Keys \cap DOMAIN inst :
                                        ~Valid(k, inst[k]))>>]
    ELSE [inst |-> update_pars(inst, parameters), exc |-> <<>>]

(***************************************************************************)
(* Output paths.  A file name is a string; it is taken apart and put      *)
(* together as the sequence of its parts, the separators ".", "/" and "_" *)
(* being parts of their own.                                               *)
(***************************************************************************)

\* The parts of the names that are tried; any other name is one part, and
\* None formatted into a name is the word "None".
Tokens(n) ==
    CASE n = "abc.fits"     -> <<"abc", ".", "fits">>
      [] n = "dir/abc.fits" -> <<"dir", "/", "abc", ".", "fits">>
      [] n = "out.fits"     -> <<"out", ".", "fits">>
      [] n = "pout.fits"    -> <<"pout", ".", "fits">>
      [] n = "a.fits"       -> <<"a", ".", "fits">>
      [] n = "m.fits"       -> <<"m", ".", "fits">>
      [] n = ".asdf"        -> <<".", "asdf">>
      [] n = ""             -> <<>>
      [] OTHER              -> <<n>>

\* The string of a sequence of parts.
RECURSIVE Flatten(_)
Flatten(ts) == IF ts = <<>> THEN "" ELSE Head(ts) \o Flatten(Tail(ts))

\* The last position of the part x in ts, 0 when there is none.
LastOf(x, ts) ==
    IF \E j \in DOMAIN ts : ts[j] = x
    THEN CHOOSE j \in DOMAIN ts :
             ts[j] = x /\ \A m \in DOMAIN ts : ts[m] = x => m <= j
    ELSE 0

\* os.path.split(p)[1]
split_tail(ts) == SubSeq(ts, LastOf("/", ts) + 1, Len(ts))

\* os.path.splitext(p): the extension starts at the last period that is
\* not the first character.
splitext(ts) ==
    LET j == LastOf(".", ts)
    IN  IF j > 1 THEN [root |-> SubSeq(ts, 1, j - 1), ext |-> SubSeq(ts, j, Len(ts))]
                 ELSE [root |-> ts, ext |-> <<>>]

\* os.path.join(a, b) of a directory and a name without directory.
join(a, b) == IF a = <<>> THEN b ELSE a \o <<"/">> \o b

\* Step.remove_suffix(name)
remove_suffix(ts) == [name |-> ts, sep |-> "_"]

\* The value False given for suffix.
False == "False"

\* Step.default_output_file() with no input file; tree holds the
\* attributes of the steps an output path is made from.
default_output_file(tree, s) ==
    IF search_attr(tree.input_filename, s) # None
    THEN Tokens(search_attr(tree.input_filename, s))
    ELSE <<"step", "_", s>> \o Tokens(tree.output_ext[s])

_get_suffix_attr_first(sfx, tree, s) ==
    IF search_attr(tree.suffix, s) # None THEN search_attr(tree.suffix, s)
    ELSE IF sfx # None THEN sfx
    ELSE lower(s)

\* _get_suffix(suffix, step=step)
_get_suffix(sfx, tree, s) ==
    LET s1 == IF sfx = None THEN search_attr(tree.suffix, s) ELSE sfx
    IN  IF s1 = None THEN lower(s) ELSE s1

choose_basepath_searching(tree, s, basepath) ==
    IF basepath = None /\ search_attr(tree.output_file, s) # None
    THEN Tokens(search_attr(tree.output_file, s))
    ELSE IF basepath = None THEN default_output_file(tree, s)
    ELSE Tokens(basepath)

\* _make_output_path, lines 1147-1150: the basepath.
choose_basepath(tree, s, basepath) ==
    LET b1 == IF basepath = None /\ tree.search_output_file[s]
              THEN search_attr(tree.output_file, s) ELSE basepath
    IN  IF b1 = None THEN default_output_file(tree, s) ELSE Tokens(b1)

\* FormatTemplate(separator="_", remove_unused=True) called with no
\* template and the components: each value that is not None, after a
\* separator.
RECURSIVE component_str(_)
component_str(components) ==
    IF components = <<>> THEN <<>>
    ELSE (IF Head(components) = None THEN <<>> ELSE <<"_", Head(components)>>)
         \o component_str(Tail(components))

\* FormatTemplate called with "{basename}{components}{suffix_sep}{suffix}.{ext}"
\* or, without suffix, "{basename}{components}.{ext}".
FormatTemplate(basename, components, suffix_sep, sfx, ext) ==
    basename \o components
    \o (IF sfx = None THEN <<>> ELSE <<suffix_sep>> \o Tokens(sfx))
    \o <<".">> \o ext

format_suffix_kept(basename, components, sfx, ext) ==
    FormatTemplate(remove_suffix(basename).name, components,
                   remove_suffix(basename).sep,
                   IF sfx = False THEN "False" ELSE sfx, ext)

\* _make_output_path, lines 1160-1193: the file name.
format_name(basename, components, sfx, ext) ==
    IF sfx # False
    THEN FormatTemplate(remove_suffix(basename).name, components,
                        remove_suffix(basename).sep, sfx, ext)
    ELSE FormatTemplate(basename, components, None, None, ext)

\* Step._make_output_path(step, basepath, ext, suffix, **components):
\* the path as a string and in parts, the basepath and the suffix it was
\* made from, and the exception raised instead.
_make_output_path(tree, s, basepath, ext, sfx0, components) ==
    LET bp   == choose_basepath(tree, s, basepath)
        se   == splitext(split_tail(bp))
        e1   == IF ext = None THEN tree.output_ext[s] ELSE ext
        e2   == IF e1 = None THEN se.ext ELSE Tokens(e1)
        e3   == IF e2 # <<>> /\ e2[1] = "." THEN Tail(e2) ELSE e2
        sfx  == _get_suffix(sfx0, tree, s)
        comp == IF Len(components) > 0 THEN component_str(components) ELSE <<>>
        dir  == IF search_attr(tree.output_dir, s) = None THEN ""
                ELSE search_attr(tree.output_dir, s)
    IN  IF e1 = None /\ se.ext = <<>>
        THEN [path |-> "", parts |-> <<>>, basepath |-> bp, suffix |-> sfx,
              exc |-> <<NoneHasNoStartswith>>]
        ELSE [path |-> Flatten(join(Tokens(dir),
                                    format_name(se.root, comp, sfx, e3))),
              parts |-> join(Tokens(dir), format_name(se.root, comp, sfx, e3)),
              basepath |-> bp, suffix |-> sfx, exc |-> <<>>]

(***************************************************************************)
(* The command-line parser made from the schema of a step class.           *)
(***************************************************************************)
built_in_configuration_parameters == {"debug", "logcfg", "verbose"}

\* ".".join(parts)
RECURSIVE Dotted(_)
Dotted(parts) ==
    IF Len(parts) = 1 THEN parts[1]
    ELSE parts[1] \o "." \o Dotted(Tail(parts))

OverridesBuiltIn(argument) ==
    Exc("ValueError", <<"The", "Step's", "spec", "is", "trying", "to",
                        "override", "a", "built-in", "parameter", argument>>)

RefusedByKey(leaf) == leaf[Len(leaf)] \in built_in_configuration_parameters

\* _build_arg_parser_from_spec, line 100: the argument is a built-in one.
Refused(leaf) == Dotted(leaf) \in built_in_configuration_parameters

\* _build_arg_parser_from_spec(spec, step_class, parent): the leaves of the
\* schema, each the sequence of the keys that lead to it, are taken in
\* order; the arguments added and the exception raised.
RECURSIVE build_from_spec(_, _)
build_from_spec(leaves, added) ==
    IF leaves = <<>> THEN [added |-> added, exc |-> <<>>]
    ELSE IF Refused(Head(leaves))
         THEN [added |-> added,
               exc |-> <<OverridesBuiltIn("--" \o Dotted(Head(leaves)))>>]
         ELSE build_from_spec(Tail(leaves),
                              Append(added, "--" \o Dotted(Head(leaves))))

(***************************************************************************)
(* The primary input of a tree of steps: the _input_filename and the      *)
(* _input_dir of every step.                                               *)
(***************************************************************************)

\* os.path.isfile(o): a TypeError for what is no path is suppressed.
isfile(o) == o \in {"a.fits", "abc.fits", "dir/abc.fits"}

\* os.path.split(p)[0]
split_head(ts) == SubSeq(ts, 1, LastOf("/", ts) - 1)

\* Step._set_input_dir(input_, exclusive): the new _input_dir of every step.
_set_input_dir(idir, s, v, exclusive) ==
    IF (~exclusive \/ search_attr(idir, s) = None)
       /\ ~v.isList /\ isfile(v.items[1])
    THEN [idir EXCEPT ![s] = Flatten(split_head(Tokens(v.items[1])))]
    ELSE idir

set_input_filename_always(ifn, s, v, exclusive) ==
    IF ~v.isList /\ IsStr(v.items[1]) THEN [ifn EXCEPT ![s] = v.items[1]]
    ELSE IF ~v.isList /\ IsModel(v.items[1])
         THEN [ifn EXCEPT ![s] = MetaFilename(v.items[1])]
         ELSE ifn

\* Step.set_primary_input(obj, exclusive), lines 993-1003: the new
\* _input_filename of every step.
set_input_filename(ifn, s, v, exclusive) ==
    IF ~exclusive \/ search_attr(ifn, s) = None
    THEN IF ~v.isList /\ IsStr(v.items[1])
         THEN [ifn EXCEPT ![s] = v.items[1]]
         ELSE IF ~v.isList /\ IsModel(v.items[1])
              THEN [ifn EXCEPT ![s] = MetaFilename(v.items[1])]
              ELSE ifn
    ELSE ifn

(***************************************************************************)
(* Reference files.                                                        *)
(***************************************************************************)

\* os.path.abspath(p) in the directory /cwd.
abspath(p) ==
    IF p \in {"/refs/flat.fits", "/cwd/ref.fits", "/cwd/ ", "/cwd/N/A"} THEN p
    ELSE "/cwd/" \o p

\* s.strip() != ""
NotBlank(s) == s \notin {"", " "}

\* Step.get_ref_override(reference_file_type), where path is the value of
\* the override attribute of the type.
get_ref_override(path) ==
    IF IsModel(path) THEN path
    ELSE IF path \notin {None, ""} /\ path # "N/A" THEN abspath(path)
    ELSE path

\* crds_client.check_reference_open(name): the name, or the error of a
\* file that cannot be opened.
check_reference_open(name) ==
    IF name \in {"N/A", "", "/cwd/ref.fits", "/refs/flat.fits"}
    THEN [value |-> name, exc |-> <<>>]
    ELSE [value |-> None, exc |-> <<Exc("FileNotFoundError", <<name>>)>>]

\* Step.get_reference_file(input_file, reference_file_type) on a step whose
\* override attribute is path and whose service answers answer: what is
\* returned, what is appended to _reference_files_used, whether the
\* service was asked, and the exception raised.
get_reference_file(path, answer) ==
    LET override == get_ref_override(path)
        opened(n) == check_reference_open(n)
    IN  IF override # None
        THEN IF IsModel(override)
             THEN [value |-> override, used |-> <<<<"flat", "handle:" \o override>>>>,
                   asked |-> FALSE, exc |-> <<>>]
             ELSE IF NotBlank(override)
                  THEN [value |-> opened(override).value,
                        used |-> <<<<"flat", abspath(override)>>>>,
                        asked |-> FALSE, exc |-> opened(override).exc]
                  ELSE [value |-> "", used |-> <<>>, asked |-> FALSE, exc |-> <<>>]
        ELSE [value |-> opened(answer).value,
              used |-> <<<<"flat", IF answer # "N/A" THEN "crds://flat.fits"
                                   ELSE "N/A">>>>,
              asked |-> TRUE, exc |-> opened(answer).exc]

(***************************************************************************)
(* search_attr with its default and with parent_first.                     *)
(***************************************************************************)

\* What getattr finds when the step has no such attribute.
NoAttr == "<no attribute>"

\* getattr(self, attribute, default)
getattr(v, default) == IF v = NoAttr THEN default ELSE v

\* Step.search_attr(attribute, default, parent_first); chain holds the
\* attribute of the step, of its parent, and so on up to the root, whose
\* parent is None.  Each recursive call leaves default at None.
RECURSIVE search_attr_default(_, _, _)
search_attr_default(chain, default, parent_first) ==
    IF parent_first
    THEN LET value == IF Len(chain) = 1 THEN None
                      ELSE search_attr_default(Tail(chain), None, TRUE)
         IN  IF value = None THEN getattr(chain[1], default) ELSE value
    ELSE LET own   == getattr(chain[1], None)
             value == IF own # None \/ Len(chain) = 1 THEN own
                      ELSE search_attr_default(Tail(chain), None, FALSE)
         IN  IF value = None THEN default ELSE value

(***************************************************************************)
(* Command-line values in a config with sections.  A section is a mapping *)
(* of keys to values and sections; a value is a Plain or a                 *)
(* FromCommandLine.                                                        *)
(***************************************************************************)

IsSectionValue(x) == DOMAIN x # {"v", "cl"}

\* d[k] = v
Put(d, k, v) == [x \in (DOMAIN d) \cup {k} |-> IF x = k THEN v ELSE d[x]]

\* set_value of _override_config_from_args, lines 146-154: key is the
\* dotted key in its parts; the sections on the way are made when they
\* are missing and the value is stored as a FromCommandLine.
RECURSIVE set_value(_, _, _)
set_value(subconf, key, val) ==
    IF Tail(key) # <<>>
    THEN Put(subconf, Head(key),
             set_value(IF Head(key) \in DOMAIN subconf THEN subconf[Head(key)]
                       ELSE EmptyConfig,
                       Tail(key), val))
    ELSE Put(subconf, Head(key), FromCommandLine(val))

\* _override_config_from_args, lines 156-158: opts are the options given,
\* the others being None.
RECURSIVE override_nested(_, _)
override_nested(config, opts) ==
    IF opts = <<>> THEN config
    ELSE override_nested(set_value(config, Head(opts).key, Head(opts).val),
                         Tail(opts))

\* config_parser.validate on a config with sections: the schema keys that
\* are missing get their defaults, what is there is kept as it is.
validate_nested(config) ==
    [k \in Keys \cup DOMAIN config |->
        IF k \in DOMAIN config THEN config[k] ELSE Plain(SchemaDefault(k))]

\* Step.from_config_section, lines 294-299, and Step.get_pars, lines
\* 1310-1315: a value of the config that is a FromCommandLine becomes a
\* str; the test is made on the values of the keys of the config itself.
to_str_top(config) ==
    [k \in DOMAIN config |->
        IF IsSectionValue(config[k]) THEN config[k]
        ELSE Plain(config[k].v)]

\* Step.from_config_section on a config with sections: the keyword
\* arguments of the constructor, which become the attributes.
from_config_section_nested(config) == to_str_top(validate_nested(config))

\* Step.get_pars() of the instance with these attributes.
get_pars_nested(inst) == to_str_top(inst)

(***************************************************************************)
(* Calls of the functions and methods that are followed one by one.       *)
(***************************************************************************)

\* The trees of steps an output path is asked of: P and its child C have
\* or lack an output file, a suffix, an input file name; the step asked
\* has or lacks an output_ext and searches for the output file or not.
PathTrees ==
    { [output_file |-> [x \in Steps |-> CASE x = "P" -> ofP [] x = "C" -> ofC
                                            [] OTHER -> None],
       suffix |-> [x \in Steps |-> CASE x = "P" -> sfP [] x = "C" -> sfC
                                       [] OTHER -> None],
       input_filename |-> [x \in Steps |-> CASE x = "P" -> inP [] x = "C" -> inC
                                               [] OTHER -> None],
       output_dir |-> [x \in Steps |-> IF x = "P" THEN od ELSE None],
       output_ext |-> [x \in Steps |-> oe],
       search_output_file |-> [x \in Steps |-> sof]] :
        ofP \in {None, "pout.fits"}, ofC \in {None, "out.fits"},
        sfP \in {None, "psfx"}, sfC \in {None, "csfx"},
        inP \in {None, "a.fits"}, inC \in {None, "m.fits"},
        od \in {None, "outdir"}, oe \in {None, ".asdf"}, sof \in BOOLEAN }

PathCalls ==
    [fn : {"_make_output_path"}, tree : PathTrees, step : {"P", "C"},
     basepath : {None, "abc.fits", "abc"}, ext : {None, "txt"},
     suffix : {None, False, "cal"}, components : {<<>>, <<"1">>}]

\* step.make_output_path(basepath, ext, suffix, **components)
MakeOutputPath ==
    /\ call.fn = "_make_output_path"
    /\ ret = <<>>
    /\ ret' = <<_make_output_path(call.tree, call.step, call.basepath,
                                  call.ext, call.suffix, call.components)>>
    /\ UNCHANGED <<cin, cpc, handed, attrs, crdsQueries, cexc, call,
                   svars, lvars, rvars, kvars>>

\* The instances update_pars is tried on: each has a name, and has or
\* lacks each parameter of the schema, as a plain value or as a
\* FromCommandLine, a boolean also as a word.
Instances ==
    { i \in UNION { [D \cup {"name"} ->
                        {Plain(None), Plain("a"), FromCommandLine("b"),
                         Plain("True"), Plain("False"), Plain("yes"),
                         FromCommandLine("no"), Plain("step")}] :
                    D \in SUBSET Keys } :
        /\ i["name"] = Plain("step")
        /\ \A k \in DOMAIN i :
              /\ k \in {"suffix", "output_dir"} =>
                    i[k] \in {Plain(None), Plain("a"), FromCommandLine("b")}
              /\ k = "save_results" =>
                    i[k] \in {Plain("True"), Plain("False"), Plain("yes"),
                              FromCommandLine("no")} }

\* The mappings update_pars is given: parameters of the schema, the name
\* (an attribute that is no parameter) and a key no step has.
ParamMaps ==
    { m \in UNION { [D -> {Plain("True"), Plain("no"), Plain("x"),
                           Plain("renamed"), Plain("1")}] :
                    D \in SUBSET {"save_results", "suffix", "name", "bogus"} } :
        \A k \in DOMAIN m :
            m[k] \in CASE k = "save_results" -> {Plain("True"), Plain("no")}
                      [] k = "suffix" -> {Plain("x")}
                      [] k = "name" -> {Plain("renamed")}
                      [] OTHER -> {Plain("1")} }

ParsCalls ==
    [fn : {"update_pars"}, self : Instances, parameters : ParamMaps]
    \cup [fn : {"update_own_pars"}, self : Instances]

\* step.update_pars(parameters)
UpdatePars ==
    /\ call.fn = "update_pars"
    /\ ret = <<>>
    /\ ret' = <<update_pars(call.self, call.parameters)>>
    /\ UNCHANGED <<cin, cpc, handed, attrs, crdsQueries, cexc, call,
                   svars, lvars, rvars, kvars>>

\* step.update_pars(step.get_pars())
UpdateOwnPars ==
    /\ call.fn = "update_own_pars"
    /\ ret = <<>>
    /\ ret' = <<update_pars(call.self, get_pars(call.self))>>
    /\ UNCHANGED <<cin, cpc, handed, attrs, crdsQueries, cexc, call,
                   svars, lvars, rvars, kvars>>

\* The values of the flag and of STPIPE_DISABLE_CRDS_STEPPARS that are
\* tried ("" in the environment stands for the variable being absent too).
FlagVals == truths \cup {"", "false", "TRUE", "1", "no"}

FlagCalls ==
    [fn : {"get_disable_crds_steppars"},
     default : {DefNone, DefBool(TRUE), DefBool(FALSE)}
               \cup { DefStr(x) : x \in FlagVals },
     env : FlagVals]

\* get_disable_crds_steppars(default) is called and returns.
GetDisableCrdsSteppars ==
    /\ call.fn = "get_disable_crds_steppars"
    /\ ret = <<>>
    /\ ret' = <<get_disable_crds_steppars(call.default, call.env)>>
    /\ UNCHANGED <<cin, cpc, handed, attrs, crdsQueries, cexc, call,
                   svars, lvars, rvars, kvars>>

\* The leaves of the schemas tried, and the schemas: a leaf or two.
SchemaLeaves ==
    { <<"par1">>, <<"debug">>, <<"logcfg">>, <<"verbose">>,
      <<"steps", "sub1", "verbose">>, <<"debug", "level">> }

ParserCalls ==
    [fn : {"_build_arg_parser_from_spec"},
     spec : { <<a>> : a \in SchemaLeaves }
            \cup { p \in SchemaLeaves \X SchemaLeaves : p[1] # p[2] }]

\* _build_arg_parser_from_spec(spec, step_class, parent) is called.
BuildArgParserFromSpec ==
    /\ call.fn = "_build_arg_parser_from_spec"
    /\ ret = <<>>
    /\ ret' = <<build_from_spec(call.spec, <<>>)>>
    /\ UNCHANGED <<cin, cpc, handed, attrs, crdsQueries, cexc, call,
                   svars, lvars, rvars, kvars>>

\* The trees whose primary input is set: P and its child C have or lack
\* an input file name and an input directory.
InputTrees ==
    { [input_filename |-> [x \in Steps |-> CASE x = "P" -> inP [] x = "C" -> inC
                                               [] OTHER -> None],
       input_dir |-> [x \in Steps |-> CASE x = "P" -> idP [] x = "C" -> idC
                                          [] OTHER -> None]] :
        inP \in {None, "a.fits"}, inC \in {None, "m.fits"},
        idP \in {None, "", "pdir"}, idC \in {None, "cdir"} }

\* run calls set_primary_input(args[0]), exclusive; exclusive=False is
\* for other callers.
InputCalls ==
    [fn : {"set_primary_input"}, tree : InputTrees, step : {"P", "C"},
     obj : {Scalar("abc.fits"), Scalar("dir/abc.fits"), Scalar("nofile"),
            Scalar("m"), Scalar("pl"), List(<<"m", "sv">>)},
     exclusive : BOOLEAN]

\* step.set_primary_input(obj, exclusive)
SetPrimaryInput ==
    /\ call.fn = "set_primary_input"
    /\ ret = <<>>
    /\ ret' = <<[input_filename |->
                    set_input_filename(call.tree.input_filename, call.step,
                                       call.obj, call.exclusive),
                 input_dir |->
                    _set_input_dir(call.tree.input_dir, call.step,
                                   call.obj, call.exclusive)]>>
    /\ UNCHANGED <<cin, cpc, handed, attrs, crdsQueries, cexc, call,
                   svars, lvars, rvars, kvars>>

\* The override of the type is absent, empty, a blank, "N/A", a path or a
\* data model; the service answers "N/A" or the path of a file.
RefCalls ==
    [fn : {"get_reference_file"},
     override : {None, "", " ", "N/A", "ref.fits", "/refs/flat.fits", "m"},
     answer : {"N/A", "/refs/flat.fits"}]

\* step.get_reference_file(input_file, "flat")
GetReferenceFile ==
    /\ call.fn = "get_reference_file"
    /\ ret = <<>>
    /\ ret' = <<get_reference_file(call.override, call.answer)>>
    /\ UNCHANGED <<cin, cpc, handed, attrs, crdsQueries, cexc, call,
                   svars, lvars, rvars, kvars>>

\* The longest parent chain that is searched.
MaxChain == 3

AttrValues == {NoAttr, None, "x", "y"}

Chains == UNION { [1..n -> AttrValues] : n \in 1..MaxChain }

SearchCalls ==
    [fn : {"search_attr"}, chain : Chains, default : {None, "d"},
     parent_first : BOOLEAN]

\* step.search_attr(attribute, default, parent_first)
SearchAttr ==
    /\ call.fn = "search_attr"
    /\ ret = <<>>
    /\ ret' = <<search_attr_default(call.chain, call.default,
                                    call.parent_first)>>
    /\ UNCHANGED <<cin, cpc, handed, attrs, crdsQueries, cexc, call,
                   svars, lvars, rvars, kvars>>

\* The models a skipped step may be handed, alone or as members.
SkipMembers == {"m", "bare", "strict"}

SkipInputs ==
    { SkipInput("model", <<o>>) : o \in SkipMembers }
    \cup { SkipInput(k, os) : k \in {"sequence", "library", "list"},
                              os \in UNION { [1..n -> SkipMembers] : n \in 0..2 } }
    \cup { SkipInput("other", <<"a.fits">>) }

SkipCalls ==
    [fn : {"skip_branch"}, alias : {None, "c_step"},
     args : {<<>>} \cup { <<x>> : x \in SkipInputs }]

\* The skip branch of run for a step with skip set.
SkipMarks ==
    /\ call.fn = "skip_branch"
    /\ ret = <<>>
    /\ ret' = <<skip_branch(call.alias, call.args)>>
    /\ UNCHANGED <<cin, cpc, handed, attrs, crdsQueries, cexc, call,
                   svars, lvars, rvars, kvars>>

\* The config files, whose values are plain: an empty one, one with a
\* suffix, one with a section for the step c and its step g.
NestedFiles ==
    { EmptyConfig,
      [k \in {"suffix"} |-> Plain("file_suffix")],
      [k \in {"steps"} |->
          [c \in {"c"} |->
              [p \in {"suffix", "steps"} |->
                  IF p = "suffix" THEN Plain("file_c")
                  ELSE [g \in {"g"} |->
                           [q \in {"suffix"} |-> Plain("file_g")]]]]] }

\* The options that may be given on the command line.
NestedOptions ==
    << [key |-> <<"suffix">>, val |-> "cli_suffix"],
       [key |-> <<"output_dir">>, val |-> "cli_output_dir"],
       [key |-> <<"steps", "c", "suffix">>, val |-> "cli_c"],
       [key |-> <<"steps", "c", "steps", "g", "suffix">>, val |-> "cli_g"] >>

\* The choices of options: those at the places of S, in their order.
RECURSIVE OptionsAt(_, _)
OptionsAt(S, i) ==
    IF i > Len(NestedOptions) THEN <<>>
    ELSE (IF i \in S THEN <<NestedOptions[i]>> ELSE <<>>) \o OptionsAt(S, i + 1)

NestedCalls ==
    [fn : {"from_cmdline_nested"}, config : NestedFiles,
     opts : { OptionsAt(S, 1) : S \in SUBSET (1..Len(NestedOptions)) }]

\* The config of the file is overridden from the arguments and the step
\* is made of it, whose parameters are then asked for.
FromCmdlineNested ==
    /\ call.fn = "from_cmdline_nested"
    /\ ret = <<>>
    /\ LET merged == override_nested(call.config, call.opts)
           inst == from_config_section_nested(merged)
       IN  ret' = <<[merged |-> merged, attrs |-> inst,
                     pars |-> get_pars_nested(inst)]>>
    /\ UNCHANGED <<cin, cpc, handed, attrs, crdsQueries, cexc, call,
                   svars, lvars, rvars, kvars>>

\* The steps of the trees that are updated, and the names of the child
\* steps.
TreeInstances ==
    { i \in Instances :
        /\ DOMAIN i = Keys \cup {"name"}
        /\ i["suffix"] \in {Plain(None), Plain("a")}
        /\ i["output_dir"] = Plain(None)
        /\ i["save_results"] = Plain("False") }

ChildNames == {"c1", "c2"}

StepTrees ==
    { StepTree(i, <<>>) : i \in TreeInstances }
    \cup { StepTree(i, <<ch>>) :
             i \in TreeInstances,
             ch \in [ChildNames -> { StepTree(c, <<>>) : c \in TreeInstances }] }

TreeParamMaps == { p \in ParamMaps : DOMAIN p \subseteq {"suffix", "bogus"} }

\* The mappings given: with or without the key "steps", which names some
\* of the child steps.
TreeParams ==
    { StepTree(p, <<>>) : p \in TreeParamMaps }
    \cup { StepTree(p, <<ch>>) :
             p \in TreeParamMaps,
             ch \in UNION { [D -> { StepTree(c, <<>>) : c \in TreeParamMaps }] :
                              D \in SUBSET ChildNames } }

TreeCalls == [fn : {"update_pars_steps"}, self : StepTrees, parameters : TreeParams]

\* step.update_pars(parameters) on a step with child steps
UpdateParsSteps ==
    /\ call.fn = "update_pars_steps"
    /\ ret = <<>>
    /\ ret' = <<update_pars_steps(call.self, call.parameters)>>
    /\ UNCHANGED <<cin, cpc, handed, attrs, crdsQueries, cexc, call,
                   svars, lvars, rvars, kvars>>

UtilCalls == FlagCalls \cup ParsCalls \cup PathCalls \cup ParserCalls
             \cup InputCalls \cup RefCalls \cup SearchCalls
             \cup SkipCalls \cup NestedCalls \cup TreeCalls

InitUtil ==
    /\ cin = [path |-> "call", present |-> [x \in Sources |-> {}],
              hasFile |-> FALSE, env |-> "", cliDisable |-> FALSE,
              input |-> "none", answer |-> "na", steps |-> NoSteps]
    /\ cpc = "idle"
    /\ handed = NoConfig
    /\ attrs = NoConfig
    /\ crdsQueries = 0
    /\ cexc = <<>>
    /\ call \in UtilCalls
    /\ ret = <<>>
    /\ Constructed(FALSE, FALSE, None, None, 0, 0)
    /\ runLimit = 0
    /\ CallIdle

NextUtil ==
    \/ GetDisableCrdsSteppars
    \/ UpdatePars
    \/ UpdateOwnPars
    \/ MakeOutputPath
    \/ BuildArgParserFromSpec
    \/ SetPrimaryInput
    \/ GetReferenceFile
    \/ SearchAttr
    \/ SkipMarks
    \/ FromCmdlineNested
    \/ UpdateParsSteps

SpecUtil == InitUtil /\ [][NextUtil]_vars

\* One run of one of the instances, with every parameter and hook list.
InitRun ==
    /\ ConfigIdle
    /\ \E sk \in BOOLEAN, sr \in BOOLEAN, of \in {None, "out.fits"},
          sf \in {None, "sfx"}, np \in 0..MaxHooks, nq \in 0..MaxHooks :
          Constructed(sk, sr, of, sf, np, nq)
    /\ runLimit = 1
    /\ CallIdle

Lifecycle(t) ==
    \/ PreHook(t)
    \/ BeginMain(t)
    \/ SkipBranch(t)
    \/ Process(t)
    \/ PostHook(t)
    \/ Finalize(t)
    \/ SaveResult(t)
    \/ RunReturn(t)

NextRun ==
    \E t \in RunThreads :
        \/ \E s \in Steps, a \in ArgTuples : RunStart(t, s, a)
        \/ Lifecycle(t)

SpecRun == InitRun /\ [][NextRun]_vars

\* The hook lists and arguments of the specification of several runs.
FewHooks == {0, 1}

FewArgs == { <<>>, <<Scalar("a.fits")>>, <<Scalar("abc.fits")>> }

\* Several runs, one after the other, of any of the instances.
InitRuns ==
    /\ ConfigIdle
    /\ \E sk \in BOOLEAN, sr \in BOOLEAN, of \in {None, "out.fits"},
          n \in FewHooks :
          Constructed(sk, sr, of, None, n, n)
    /\ runLimit = MaxRuns
    /\ CallIdle

NextRuns ==
    \E t \in RunThreads :
        \/ \E s \in Steps, a \in FewArgs : RunStart(t, s, a)
        \/ Lifecycle(t)

SpecRuns == InitRuns /\ [][NextRuns]_vars

\* Two calls of run at the same time, on one instance or on two: a step
\* of one may come between any two steps of the other.  The steps have no
\* hooks and are not skipped.
InitConcurrent ==
    /\ ConfigIdle
    /\ \E sr \in BOOLEAN : Constructed(FALSE, sr, None, None, 0, 0)
    /\ runLimit = Cardinality(AllThreads)
    /\ CallIdle

\* What process does in the runs that are interleaved.
FewOutcomes == { Scalar("m"), Exc("ValueError", <<"bad", "value">>) }

NextConcurrent ==
    \E t \in AllThreads :
        \/ \E s \in {"P", "Q"} :
              frame[t].pc = "idle" /\ RunStart(t, s, <<Scalar("a.fits")>>)
        \/ BeginMain(t)
        \/ ProcessOf(t, FewOutcomes)
        \/ Finalize(t)
        \/ SaveResult(t)
        \/ RunReturn(t)

SpecConcurrent == InitConcurrent /\ [][NextConcurrent]_vars

(***************************************************************************)
(* preserve_step_pars: a block of operations on a step whose parameters   *)
(* are saved on entry.  attrs holds the attributes of the step, call the  *)
(* with statement and what it saved, ret how the block was left.           *)
(***************************************************************************)

\* The steps the block is entered with: every key of the schema is an
\* attribute, with a value the schema takes.
WholeInstances == { i \in Instances : DOMAIN i = Keys \cup {"name"} }

\* The values assigned in the block.
AssignedValues ==
    {Plain(None), Plain("a"), Plain("True"), Plain("False"), Plain("maybe")}

InBlock == call.fn = "preserve_step_pars" /\ call.saved # <<>> /\ ret = <<>>

\* saved_pars = step.get_pars(); yield saved_pars
EnterPreserve ==
    /\ call.fn = "preserve_step_pars"
    /\ call.saved = <<>>
    /\ call' = [call EXCEPT !.saved = <<get_pars(attrs)>>]
    /\ UNCHANGED <<cin, cpc, handed, attrs, crdsQueries, cexc, ret,
                   svars, lvars, rvars, kvars>>

\* In the block: step.<k> = v for a parameter k of the schema.
BlockAssign(k, v) ==
    /\ InBlock
    /\ k = "save_results" <=> v.v \in {"True", "False", "maybe"}
    /\ attrs' = [attrs EXCEPT ![k] = v]
    /\ UNCHANGED <<cin, cpc, handed, crdsQueries, cexc, call, ret,
                   svars, lvars, rvars, kvars>>

\* In the block: step.update_pars(parameters), which may raise and so
\* leave the block.
BlockUpdatePars(parameters) ==
    /\ InBlock
    /\ LET r == update_pars_or_raise(attrs, parameters)
           out == update_pars_or_raise(r.inst, call.saved[1])
       IN  IF r.exc = <<>>
           THEN attrs' = r.inst /\ UNCHANGED ret
           ELSE attrs' = out.inst /\ ret' = <<[raised |-> TRUE, exc |-> out.exc]>>
    /\ UNCHANGED <<cin, cpc, handed, crdsQueries, cexc, call,
                   svars, lvars, rvars, kvars>>

\* In the block: step.run(...), lines 530-534: save_results is set when
\* there is an output file, the suffix is settled.
BlockRun(hasOutputFile) ==
    /\ InBlock
    /\ attrs' = [attrs EXCEPT
           !["save_results"] = IF hasOutputFile THEN Plain("True") ELSE @,
           !["suffix"] = IF @.v = None THEN Plain(lower("step")) ELSE @]
    /\ UNCHANGED <<cin, cpc, handed, crdsQueries, cexc, call, ret,
                   svars, lvars, rvars, kvars>>

\* The block is left, by its end or by an exception:
\* finally: step.update_pars(saved_pars)
LeavePreserve(raised) ==
    /\ InBlock
    /\ LET out == update_pars_or_raise(attrs, call.saved[1])
       IN  /\ attrs' = out.inst
           /\ ret' = <<[raised |-> raised, exc |-> out.exc]>>
    /\ UNCHANGED <<cin, cpc, handed, crdsQueries, cexc, call,
                   svars, lvars, rvars, kvars>>

InitPreserve ==
    /\ cin = [path |-> "call", present |-> [x \in Sources |-> {}],
              hasFile |-> FALSE, env |-> "", cliDisable |-> FALSE,
              input |-> "none", answer |-> "na", steps |-> NoSteps]
    /\ cpc = "idle"
    /\ handed = NoConfig
    /\ attrs \in WholeInstances
    /\ crdsQueries = 0
    /\ cexc = <<>>
    /\ call = [fn |-> "preserve_step_pars", saved |-> <<>>]
    /\ ret = <<>>
    /\ Constructed(FALSE, FALSE, None, None, 0, 0)
    /\ runLimit = 0
    /\ CallIdle

NextPreserve ==
    \/ EnterPreserve
    \/ \E k \in Keys, v \in AssignedValues : BlockAssign(k, v)
    \/ \E p \in ParamMaps : BlockUpdatePars(p)
    \/ \E b \in BOOLEAN : BlockRun(b)
    \/ \E raised \in BOOLEAN : LeavePreserve(raised)

SpecPreserve == InitPreserve /\ [][NextPreserve]_vars

(***************************************************************************)
(* Step.call and the logging configuration that is applied.               *)
(***************************************************************************)
MaxCalls == 2

\* LogConfig.apply() and LogConfig.undo() of the configuration c, by the
\* call k, on the flag and the history g.
LogApply(g, c, k) ==
    [applied |-> <<c>>,
     logops |-> Append(g.logops, [op |-> "apply", cfg |-> c, by |-> k,
                                  applied |-> <<c>>])]

LogUndo(g, c, k) ==
    [applied |-> <<>>,
     logops |-> Append(g.logops, [op |-> "undo", cfg |-> c, by |-> k,
                                  applied |-> <<>>])]

\* The configuration the command line applied before the step ran.
CmdlineCfg == <<0, "cmdline">>

\* The frame at the top of the stack.
Top == stack[Len(stack)]

SetTop(f) == [stack EXCEPT ![Len(stack)] = f]

Noted(op, k, a) == [op |-> op, cfg |-> <<k, "none">>, by |-> k, applied |-> a]

\* Step.call(*args, **kwargs), lines 725-743: the logging configuration of
\* the call.  kw tells the logcfg keyword: "none", "good" or "bad".  The
\* call is made at the top level or from the process of a step being run
\* by a call.
CallStep(kw) ==
    /\ ncalls < MaxCalls
    /\ IF stack = <<>> THEN TRUE ELSE Top.pc = "run"
    /\ ncalls' = ncalls + 1
    /\ LET k == ncalls + 1
           log_cfg == IF kw = "good" THEN << <<k, "kwarg">> >>
                      ELSE IF applied = <<>> THEN << <<k, "default">> >>
                      ELSE <<>>
       IN  IF kw = "bad"
           THEN /\ logops' = logops \o << Noted("call", k, applied),
                                          Noted("raise", k, applied) >>
                /\ UNCHANGED stack
           ELSE /\ logops' = Append(logops, Noted("call", k, applied))
                /\ stack' = Append(stack, [id |-> k, pc |-> "with",
                                           log_cfg |-> log_cfg, ctx |-> log_cfg])
    /\ UNCHANGED <<applied, cvars, svars, lvars, rvars>>

\* with ctx(): the context of the configuration applies it.
EnterContext ==
    /\ stack # <<>>
    /\ Top.pc = "with"
    /\ LET g == IF Top.ctx = <<>> THEN [applied |-> applied, logops |-> logops]
                ELSE LogApply([applied |-> applied, logops |-> logops],
                              Top.ctx[1], Top.id)
       IN  /\ applied' = g.applied
           /\ logops' = g.logops
    /\ stack' = SetTop([Top EXCEPT !.pc = "build"])
    /\ UNCHANGED <<ncalls, cvars, svars, lvars, rvars>>

\* Lines 746-753: build_config raises, or gives a config without or with
\* the key logcfg.
BuildConfig(out) ==
    /\ stack # <<>>
    /\ Top.pc = "build"
    /\ LET g0 == [applied |-> applied, logops |-> logops]
           g1 == IF Top.log_cfg # <<>> THEN LogUndo(g0, Top.log_cfg[1], Top.id)
                 ELSE g0
           g2 == LogApply(g1, <<Top.id, "file">>, Top.id)
       IN  IF out = "logcfg"
           THEN /\ applied' = g2.applied
                /\ logops' = g2.logops
                /\ stack' = SetTop([Top EXCEPT !.pc = "run",
                                               !.log_cfg = << <<Top.id, "file">> >>])
           ELSE /\ UNCHANGED <<applied, logops>>
                /\ stack' = SetTop([Top EXCEPT !.pc = IF out = "raises"
                                                      THEN "exit" ELSE "run"])
    /\ UNCHANGED <<ncalls, cvars, svars, lvars, rvars>>

\* Lines 755-763: the instance is made and run; it returns or raises.
RunInstance ==
    /\ stack # <<>>
    /\ Top.pc = "run"
    /\ stack' = SetTop([Top EXCEPT !.pc = "exit"])
    /\ UNCHANGED <<applied, logops, ncalls, cvars, svars, lvars, rvars>>

\* The with statement is left: the context undoes its configuration.
ExitContext ==
    /\ stack # <<>>
    /\ Top.pc = "exit"
    /\ LET g0 == [applied |-> applied, logops |-> logops]
           g1 == IF Top.ctx = <<>> THEN g0
                 ELSE LogUndo(g0, Top.ctx[1], Top.id)
       IN  /\ applied' = g1.applied
           /\ logops' = Append(g1.logops, Noted("return", Top.id, g1.applied))
    /\ stack' = SubSeq(stack, 1, Len(stack) - 1)
    /\ UNCHANGED <<ncalls, cvars, svars, lvars, rvars>>

\* Calls of Step.call, with or without a configuration applied by the
\* command line.
InitCall ==
    /\ cin = [path |-> "call", present |-> [x \in Sources |-> {}],
              hasFile |-> FALSE, env |-> "", cliDisable |-> FALSE,
              input |-> "none", answer |-> "na", steps |-> NoSteps]
    /\ cpc = "idle"
    /\ handed = NoConfig
    /\ attrs = NoConfig
    /\ crdsQueries = 0
    /\ cexc = <<>>
    /\ call = NoCall
    /\ ret = <<>>
    /\ Constructed(FALSE, FALSE, None, None, 0, 0)
    /\ runLimit = 0
    /\ \/ CallIdle
       \/ /\ applied = <<CmdlineCfg>>
          /\ stack = <<>>
          /\ logops = <<[op |-> "apply", cfg |-> CmdlineCfg, by |-> 0,
                         applied |-> <<CmdlineCfg>>]>>
          /\ ncalls = 0

NextCall ==
    \/ \E kw \in {"none", "good", "bad"} : CallStep(kw)
    \/ EnterContext
    \/ \E out \in {"raises", "plain", "logcfg"} : BuildConfig(out)
    \/ RunInstance
    \/ ExitContext

SpecCall == InitCall /\ [][NextCall]_vars

(***************************************************************************)
(* step_from_cmdline and the logging configuration it applies.            *)
(***************************************************************************)

\* What leaves a call: an Exception, or a BaseException that is none
\* (SystemExit of the argument parser, KeyboardInterrupt).
RaisedKinds == {"Exception", "BaseException"}

\* The state of the flag and the history.
LogState == [applied |-> applied, logops |-> logops]

\* if log.LogConfig.applied is not None: log.LogConfig.applied.undo()
UndoApplied(g, k) == IF g.applied = <<>> THEN g ELSE LogUndo(g, g.applied[1], k)

\* cmdline.py, lines 393-397: the handler of the failures of
\* just_the_step_from_cmdline, which is an except Exception.
BuildFailureHandled(kind) == kind = "Exception"

\* step_from_cmdline(args) is called, at the top level.
CmdlineStart(debug) ==
    /\ ncalls < MaxCalls
    /\ stack = <<>>
    /\ ncalls' = ncalls + 1
    /\ logops' = Append(logops, Noted("call", ncalls + 1, applied))
    /\ stack' = <<[id |-> ncalls + 1, pc |-> "logcfg", debug |-> debug,
                   raising |-> <<>>]>>
    /\ UNCHANGED <<applied, cvars, svars, lvars, rvars>>

\* just_the_step_from_cmdline, lines 243-283: the class and the logging
\* configuration are found, which may fail, and the configuration is
\* applied.
CmdlineLogConfig(ok) ==
    /\ stack # <<>>
    /\ IF stack = <<>> THEN FALSE ELSE Top.pc = "logcfg"
    /\ IF ok
       THEN LET g == LogApply(LogState, <<Top.id, "cmdline">>, Top.id)
            IN  /\ applied' = g.applied
                /\ logops' = g.logops
                /\ stack' = SetTop([Top EXCEPT !.pc = "build"])
       ELSE /\ stack' = SetTop([Top EXCEPT !.pc = "except",
                                           !.raising = <<"Exception">>])
            /\ UNCHANGED <<applied, logops>>
    /\ UNCHANGED <<ncalls, cvars, svars, lvars, rvars>>

\* just_the_step_from_cmdline, lines 285-364: the second parser reads the
\* arguments, leaving by SystemExit on an option it does not know or on
\* --help, and the step is made, which fails with the ValueError of a
\* validation error.
CmdlineBuild(out) ==
    /\ stack # <<>>
    /\ IF stack = <<>> THEN FALSE ELSE Top.pc = "build"
    /\ stack' = SetTop([Top EXCEPT
           !.pc = IF out = "step" THEN "run" ELSE "except",
           !.raising = CASE out = "step" -> <<>>
                         [] out = "ValueError" -> <<"Exception">>
                         [] OTHER -> <<"BaseException">>])
    /\ UNCHANGED <<applied, logops, ncalls, cvars, svars, lvars, rvars>>

\* step_from_cmdline, lines 393-397: what just_the_step_from_cmdline raised
\* leaves the function, after the undo when the handler takes it.
CmdlineBuildFailed ==
    /\ stack # <<>>
    /\ IF stack = <<>> THEN FALSE ELSE Top.pc = "except"
    /\ LET g == IF BuildFailureHandled(Top.raising[1])
                THEN UndoApplied(LogState, Top.id) ELSE LogState
       IN  /\ applied' = g.applied
           /\ logops' = Append(g.logops,
                  [Noted("raise", Top.id, g.applied) EXCEPT
                      !.cfg = <<Top.id, Top.raising[1]>>])
    /\ stack' = <<>>
    /\ UNCHANGED <<ncalls, cvars, svars, lvars, rvars>>

\* step_from_cmdline, lines 399-417: the step is run.  An Exception of run
\* is given to the debugger when debug is set and is raised again when it
\* is not.
CmdlineRun(out) ==
    /\ stack # <<>>
    /\ IF stack = <<>> THEN FALSE ELSE Top.pc = "run"
    /\ IF out = "Exception" /\ Top.debug
       THEN /\ logops' = Append(logops, Noted("post_mortem", Top.id, applied))
            /\ stack' = SetTop([Top EXCEPT !.pc = "finally"])
       ELSE /\ UNCHANGED logops
            /\ stack' = SetTop([Top EXCEPT
                   !.pc = "finally",
                   !.raising = IF out = "returns" THEN <<>> ELSE <<out>>])
    /\ UNCHANGED <<applied, ncalls, cvars, svars, lvars, rvars>>

\* step_from_cmdline, lines 418-423: the finally clause undoes what is
\* applied, and the step is returned or the exception goes on.
CmdlineFinally ==
    /\ stack # <<>>
    /\ IF stack = <<>> THEN FALSE ELSE Top.pc = "finally"
    /\ LET g == UndoApplied(LogState, Top.id)
       IN  /\ applied' = g.applied
           /\ logops' = Append(g.logops,
                  IF Top.raising = <<>> THEN Noted("return", Top.id, g.applied)
                  ELSE [Noted("raise", Top.id, g.applied) EXCEPT
                           !.cfg = <<Top.id, Top.raising[1]>>])
    /\ stack' = <<>>
    /\ UNCHANGED <<ncalls, cvars, svars, lvars, rvars>>

NextCmdline ==
    \/ \E debug \in BOOLEAN : CmdlineStart(debug)
    \/ \E ok \in BOOLEAN : CmdlineLogConfig(ok)
    \/ \E out \in {"step", "ValueError", "SystemExit"} : CmdlineBuild(out)
    \/ CmdlineBuildFailed
    \/ \E out \in {"returns"} \cup RaisedKinds : CmdlineRun(out)
    \/ CmdlineFinally

SpecCmdline == InitCall /\ [][NextCmdline]_vars

(***************************************************************************)
(*                 PROPERTIES OF CONFIGURATION BUILDING                    *)
(***************************************************************************)

\* The remote lookup is switched off, by the option or by the environment.
LookupDisabled(c) == c.cliDisable \/ c.env \in truths

\* The reference service gave a fragment that has the key.
CrdsGives(c, k) ==
    /\ c.input = "ok"
    /\ c.answer = "found"
    /\ ~LookupDisabled(c)
    /\ k \in c.present["crds"]

\* The value the precedence law gives a key: command line, else keyword,
\* else config file, else remote service, else schema default.
LawValue(c, k) ==
    IF k \in c.present["cli"] THEN SrcVal("cli", k)
    ELSE IF k \in c.present["kw"] THEN SrcVal("kw", k)
    ELSE IF k \in c.present["file"] THEN SrcVal("file", k)
    ELSE IF CrdsGives(c, k) THEN SrcVal("crds", k)
    ELSE SchemaDefault(k)

C2_Scenario ==
    ( /\ cpc = "done"
      /\ cin.path = "cmdline"
      /\ cin.env \in truths
      /\ cin.hasFile
      /\ cin.present["cli"] = {"output_dir"} )
    => /\ handed["output_dir"] = Plain(SrcVal("cli", "output_dir"))
       /\ \A k \in Keys \ {"output_dir"} :
             handed[k] = Plain(IF k \in cin.present["file"]
                               THEN SrcVal("file", k) ELSE SchemaDefault(k))
       /\ crdsQueries = 0

\* The scenario of C2 with an input file the service has parameters for.
C2_Witness ==
    /\ cpc = "done"
    /\ cin.path = "cmdline"
    /\ cin.env = "y"
    /\ ~cin.cliDisable
    /\ cin.hasFile
    /\ cin.present["cli"] = {"output_dir"}
    /\ cin.present["file"] = {"output_dir", "suffix"}
    /\ cin.present["crds"] = Keys
    /\ cin.input = "ok"
    /\ cin.answer = "found"
    /\ handed["save_results"] = Plain("False")
    /\ crdsQueries = 0

(***************************************************************************)
(*                        PROPERTIES OF Step.run                           *)
(***************************************************************************)

\* The entries of a trace that are calls of one kind.
Calls(tr, kind) == SelectSeq(tr, LAMBDA e : e.ev = kind)

Called(tr, kind) == \E j \in DOMAIN tr : tr[j].ev = kind

\* The argument tuple after the first j pre-hooks of pre, by the rule of
\* the hooks: a value that is not None becomes the only argument.
RECURSIVE ArgsAfter(_, _, _)
ArgsAfter(args, pre, j) ==
    IF j = 0 THEN args
    ELSE IF pre[j].out = NoneV THEN ArgsAfter(args, pre, j - 1)
    ELSE <<pre[j].out>>

\* The result after the first j post-hooks of post, by the same rule.
RECURSIVE ResultAfter(_, _, _)
ResultAfter(result, post, j) ==
    IF j = 0 THEN result
    ELSE IF post[j].out = NoneV THEN ResultAfter(result, post, j - 1)
    ELSE post[j].out

\* The arguments run was called with.
RunArgs(tr) == tr[1].in

\* What run returned.
Returned(tr) == tr[Len(tr)].out

\* Every entry of kind a is before every entry of kind b.
Before(tr, a, b) ==
    \A x, y \in DOMAIN tr : (tr[x].ev = a /\ tr[y].ev = b) => x < y

\* C3 as stated: a run of a step with skip=True and pre-hooks executes all
\* pre-hooks, never calls process and returns the first argument as the
\* pre-hooks left it.
C3_SkipNeverProcesses ==
    \A t \in AllThreads :
        LET f == frame[t]
            tr == trace[t]
            pre == Calls(tr, "pre")
        IN  (f.pc = "returned" /\ f.skip0 /\ nPre[f.step] > 0) =>
                /\ Len(pre) = nPre[f.step]
                /\ ~Called(tr, "process")
                /\ Returned(tr) = ArgsAfter(RunArgs(tr), pre, Len(pre))[1]

\* C3, amended: a run of a step that has a parent, skip=True and pre-hooks
\* never calls process; when it returns, every pre-hook was executed, in
\* order, and the value returned is the first argument as the pre-hooks
\* left it, or what the last post-hook that returned a value put in its
\* place.
C3_SkippedChild ==
    \A t \in AllThreads :
        LET f == frame[t]
            tr == trace[t]
            pre == Calls(tr, "pre")
            post == Calls(tr, "post")
        IN  ( /\ f.pc # "idle"
              /\ f.skip0
              /\ nPre[f.step] > 0
              /\ parent(f.step) # None ) =>
                /\ ~Called(tr, "process")
                /\ f.pc = "returned" =>
                      /\ Len(pre) = nPre[f.step]
                      /\ \A j \in DOMAIN pre : pre[j].i = j
                      /\ Returned(tr) =
                            ResultAfter(ArgsAfter(RunArgs(tr), pre, Len(pre))[1],
                                        post, Len(post))

\* A skipped child called with no argument returns what its second
\* pre-hook returned.
C3_Witness ==
    LET f == frame[1]
        tr == trace[1]
        pre == Calls(tr, "pre")
    IN  /\ f.pc = "returned"
        /\ f.step = "C"
        /\ f.skip0
        /\ nPre["C"] = 2
        /\ nPost["C"] = 0
        /\ RunArgs(tr) = <<>>
        /\ pre[1].out = NoneV
        /\ pre[2].out = PreHookValue(2)
        /\ ~Called(tr, "process")
        /\ Returned(tr) = PreHookValue(2)

\* The call of run of thread t is past the test of skip (line 553).
PastSkipTest(f) ==
    f.pc \in {"skip", "process", "post", "finalize", "save", "exit", "returned"}

\* C4: in a run of an outermost step skip is False from the test of skip
\* on, the skip branch is not taken and process is called; skip stays
\* False afterwards; the skip of a step with a parent never changes.
C4_StandaloneSkipDropped ==
    [][ \A s \in Steps :
          /\ parent(s) # None => skip'[s] = skip[s]
          /\ (parent(s) = None /\ ~skip[s]) => ~skip'[s]
          /\ \A t \in AllThreads :
                (frame'[t].step = s /\ parent(s) = None /\ PastSkipTest(frame'[t]))
                => /\ ~skip'[s]
                   /\ frame'[t].pc # "skip"
                   /\ ~Called(trace'[t], "skipbranch")
                   /\ frame'[t].pc # "process" => Called(trace'[t], "process")
      ]_vars

\* Second run: Q, built with skip=True, has returned from process with
\* skip False; P, run before, has skip False too; C still has skip True.
C4_Witness ==
    /\ frame[1].pc = "returned"
    /\ frame[1].n = 2
    /\ frame[1].step = "Q"
    /\ frame[1].skip0
    /\ Called(trace[1], "process")
    /\ ~skip["Q"]
    /\ ~skip["P"]
    /\ skip["C"]

\* C5: pre-hooks run once each, in the order of the list and before
\* process (or the skip branch); each is given the argument tuple as the
\* hooks before it left it, and so is process.
C5_PreHooks ==
    \A t \in AllThreads :
        LET f == frame[t]
            tr == trace[t]
            pre == Calls(tr, "pre")
        IN  f.pc # "idle" =>
                /\ Len(pre) <= nPre[f.step]
                /\ \A j \in DOMAIN pre :
                      /\ pre[j].i = j
                      /\ pre[j].in = ArgsAfter(RunArgs(tr), pre, j - 1)
                /\ Before(tr, "pre", "process")
                /\ Before(tr, "pre", "skipbranch")
                /\ \A x \in DOMAIN tr :
                      tr[x].ev \in {"process", "skipbranch"} =>
                          /\ Len(pre) = nPre[f.step]
                          /\ tr[x].in = ArgsAfter(RunArgs(tr), pre, Len(pre))
                /\ f.pc \in {"skip", "process"} =>
                      /\ Len(pre) = nPre[f.step]
                      /\ f.args = ArgsAfter(RunArgs(tr), pre, Len(pre))

\* Two pre-hooks: the first returns a value, the second returns None, and
\* process is called with the value of the first alone.
C5_Witness ==
    LET tr == trace[1]
        pre == Calls(tr, "pre")
        proc == Calls(tr, "process")
    IN  /\ Len(pre) = 2
        /\ Len(RunArgs(tr)) = 2
        /\ pre[1].out = PreHookValue(1)
        /\ pre[2].in = <<PreHookValue(1)>>
        /\ pre[2].out = NoneV
        /\ Len(proc) = 1
        /\ proc[1].in = <<PreHookValue(1)>>

\* C6: post-hooks run once each, in the order of the list, after process
\* or the skip branch and before finalization; each is given the result
\* as the hooks before it left it; finalization and the caller get the
\* result the last hook left.  A skipped step runs them too.
C6_PostHooks ==
    \A t \in AllThreads :
        LET f == frame[t]
            tr == trace[t]
            post == Calls(tr, "post")
            main == Calls(tr, "process") \o Calls(tr, "skipbranch")
        IN  f.pc # "idle" =>
                /\ Len(post) <= nPost[f.step]
                /\ Len(post) > 0 => (Len(main) = 1 /\ main[1].out # Raised)
                /\ \A j \in DOMAIN post :
                      /\ post[j].i = j
                      /\ post[j].in = <<ResultAfter(main[1].out, post, j - 1)>>
                /\ Before(tr, "process", "post")
                /\ Before(tr, "skipbranch", "post")
                /\ Before(tr, "post", "finalize")
                /\ \A x \in DOMAIN tr :
                      tr[x].ev = "finalize" =>
                          /\ Len(post) = nPost[f.step]
                          /\ tr[x].in = <<ResultAfter(main[1].out, post, Len(post))>>
                /\ f.pc = "returned" =>
                      Returned(tr) = ResultAfter(main[1].out, post, Len(post))

\* A skipped child with two post-hooks: the first returns None, the second
\* a value, which run returns in place of the first argument.
C6_Witness ==
    LET f == frame[1]
        tr == trace[1]
        post == Calls(tr, "post")
    IN  /\ f.pc = "returned"
        /\ f.step = "C"
        /\ Called(tr, "skipbranch")
        /\ Len(post) = 2
        /\ post[1].out = NoneV
        /\ post[1].in = <<Scalar("m")>>
        /\ post[2].in = <<Scalar("m")>>
        /\ post[2].out = PostHookValue(2)
        /\ Returned(tr) = PostHookValue(2)

\* C7 as stated: a run that comes to its end has invoked a save exactly if
\* skip is False and save_results is True.
C7_SaveIff ==
    \A t \in AllThreads :
        LET f == frame[t]
        IN  f.pc \in {"exit", "returned"} =>
                (Called(trace[t], "save")
                    <=> (~skip[f.step] /\ save_results[f.step]))

\* C7, amended: run invokes a save only if skip is False and save_results
\* is True, so a skipped step saves nothing; when both hold, every result
\* that is a data model or has a save method gets its save attempt (one
\* with a save method that is no data model is left unsaved when no output
\* path can be made), and no other result is saved.
C7_SaveOnlyIf ==
    \A t \in AllThreads :
        LET f == frame[t]
            tr == trace[t]
            s == f.step
            items == ResultsToSave(f.result)
        IN  f.pc # "idle" =>
                /\ Called(tr, "save") => (~skip[s] /\ save_results[s])
                /\ (f.skip0 /\ parent(s) # None) => ~Called(tr, "save")
                /\ \A x \in DOMAIN tr :
                      tr[x].ev = "save" =>
                          (ToSaveModel(tr[x].in[1].items[1]) \/ HasSave(tr[x].in[1].items[1]))
                /\ (f.pc \in {"exit", "returned"} /\ ~skip[s] /\ save_results[s]) =>
                      \A j \in DOMAIN items :
                          (ToSaveModel(items[j]) \/ HasSave(items[j])) =>
                              \E x \in DOMAIN tr :
                                  /\ tr[x].ev \in
                                        (IF ToSaveModel(items[j]) THEN {"save"}
                                                              ELSE {"save", "nopath"})
                                  /\ tr[x].in = <<Scalar(items[j])>>
                                  /\ tr[x].i = SaveIdx(items, j)

\* A run with save_results that returned a list of a data model and an
\* object with a save method has saved both, with their positions.
C7_Witness ==
    LET f == frame[1]
        sv == Calls(trace[1], "save")
    IN  /\ f.pc = "returned"
        /\ ~skip[f.step]
        /\ save_results[f.step]
        /\ f.result = List(<<"m", "sv">>)
        /\ Len(sv) = 2
        /\ sv[1].i = 0
        /\ sv[2].i = 1
        /\ sv[2].out = Scalar("saved")

\* C8: run never sets save_results to False, leaves it alone when
\* output_file is None, and a step with an output file has save_results
\* True once run has settled it, for good.
C8_SaveResultsForced ==
    [][ \A s \in Steps :
          /\ save_results[s] => save_results'[s]
          /\ output_file[s] = None => save_results'[s] = save_results[s]
          /\ ( /\ \E t \in AllThreads :
                     frame'[t].step = s /\ frame'[t].pc # "idle"
               /\ output_file'[s] # None ) => save_results'[s]
      ]_vars

\* Second run, of Q: P, run before with an output file, still has
\* save_results True; C, never run, has the False it was built with.
C8_Witness ==
    /\ frame[1].n = 2
    /\ frame[1].step = "Q"
    /\ frame[1].pc = "returned"
    /\ output_file["P"] # None
    /\ save_results["P"]
    /\ save_results["Q"]
    /\ ~save_results["C"]

\* The records a run emitted, from what it did.
RecordsOf(f, tr) ==
    <<LogRecord(f.step, f.n, "running")>>
    \o (IF Called(tr, "skipbranch")
        THEN <<LogRecord(f.step, f.n, "skipped")>> ELSE <<>>)
    \o (IF Called(tr, "return") /\ ~skip[f.step]
        THEN <<LogRecord(f.step, f.n, "done")>> ELSE <<>>)

\* C9: when run has returned or raised, no capture is installed, and the
\* log records of the step are the records emitted during the run.
C9_CaptureReleased ==
    \A t \in AllThreads :
        LET f == frame[t]
        IN  f.pc \in {"returned", "raised"} =>
                /\ handlers = {}
                /\ log_records[f.step] = f.cap
                /\ lists[log_records[f.step]] = RecordsOf(f, trace[t])

\* run has raised while saving; the capture is gone and the record of the
\* start of the run is kept.
C9_Witness ==
    LET f == frame[1]
        tr == trace[1]
    IN  /\ f.pc = "raised"
        /\ Len(tr) > 2
        /\ tr[Len(tr) - 1].ev = "save"
        /\ tr[Len(tr) - 1].out = Raised
        /\ handlers = {}
        /\ lists[log_records[f.step]] = <<LogRecord(f.step, 1, "running")>>

\* The root of the tree a step is in.
RECURSIVE Root(_)
Root(s) == IF parent(s) = None THEN s ELSE Root(parent(s))

\* C10: a step of the run of one instance changes neither the list of
\* reference files nor the log records of an instance of another tree, and
\* the lists of the running instance hold only its own entries.
C10_Isolation ==
    [][ \A t \in AllThreads :
          frame'[t].pc # "idle" =>
              LET r == frame'[t].step
              IN  /\ \A s \in Steps :
                        Root(r) # Root(s) =>
                            /\ reference_files_used'[s] = reference_files_used[s]
                            /\ lists'[log_records'[s]] = lists[log_records[s]]
                  /\ \A j \in DOMAIN reference_files_used'[r] :
                        reference_files_used'[r][j].by = r
                  /\ \A j \in DOMAIN lists'[log_records'[r]] :
                        /\ lists'[log_records'[r]][j].by = r
                        /\ lists'[log_records'[r]][j].run = frame'[t].n
      ]_vars

\* P has raised in the first run and Q in the second, each after asking
\* for a reference file: each keeps its own entry and its own records.
C10_Witness ==
    /\ frame[1].pc = "raised"
    /\ frame[1].n = 2
    /\ frame[1].step = "Q"
    /\ reference_files_used["Q"] = <<RefEntry("Q", 2)>>
    /\ reference_files_used["P"] = <<RefEntry("P", 1)>>
    /\ lists[log_records["P"]] = <<LogRecord("P", 1, "running")>>
    /\ lists[log_records["Q"]] = <<LogRecord("Q", 2, "running")>>

(***************************************************************************)
(*                  PROPERTIES OF THE ERRORS OF process                    *)
(***************************************************************************)

\* The message of a TypeError says that process was called with a wrong
\* number of arguments.
DenotesArityMismatch(e) ==
    /\ e.type = "TypeError"
    /\ \/ Contains(<<"process()", "takes">>, e.msg)
       \/ Contains(<<"process()", "missing">>, e.msg)

\* The call of run of thread t was left by an exception of process.
ProcessRaised(t) ==
    /\ frame[t].pc = "raised"
    /\ Len(trace[t]) >= 2
    /\ trace[t][Len(trace[t]) - 1].ev = "process"

\* What process raised, and what left run.
RaisedByProcess(t) == trace[t][Len(trace[t]) - 1].objs[1]

LeftRun(t) == trace[t][Len(trace[t])].in[1]

\* C11 as stated: when process raises a TypeError whose message denotes a
\* wrong number of arguments, run raises "Incorrect number of arguments to
\* step" chained to it; any other exception of process leaves run as it is.
C11_ArityRethrown ==
    \A t \in AllThreads :
        ProcessRaised(t) =>
            LeftRun(t) = IF DenotesArityMismatch(RaisedByProcess(t))
                         THEN ChainedTo(IncorrectNumber, RaisedByProcess(t))
                         ELSE RaisedByProcess(t)

(***************************************************************************)
(*                  PROPERTIES OF THE BLOCKS OF steps                      *)
(***************************************************************************)

\* The block of the key k names a config file that declares another name.
FileDeclaresOther(c, k) ==
    /\ "config_file" \in DOMAIN c.steps[k]
    /\ "name" \in DOMAIN load_config_file(c.steps[k]["config_file"])
    /\ load_config_file(c.steps[k]["config_file"])["name"] # k

\* The block of the key k itself, or the file it names, declares a class,
\* or the block declares a name that is not its key.
BlockRedeclares(c, k) ==
    \/ "class" \in DOMAIN c.steps[k]
    \/ ( /\ "config_file" \in DOMAIN c.steps[k]
         /\ "class" \in DOMAIN load_config_file(c.steps[k]["config_file"]) )
    \/ ("name" \in DOMAIN c.steps[k] /\ c.steps[k]["name"] # k)

\* C12 as stated: a block of steps whose config file declares another
\* name, or that redeclares class or name mismatched with its key, makes
\* the building fail with ConfigError before any Step is constructed.
C12_MismatchRejected ==
    ( /\ cpc # "start"
      /\ \E k \in DOMAIN cin.steps :
            FileDeclaresOther(cin, k) \/ BlockRedeclares(cin, k) )
    => /\ cpc = "failed"
       /\ cexc # <<>>
       /\ cexc[1].type = "ConfigError"
       /\ attrs = NoConfig

\* C12, amended: building fails exactly when the config file of a block
\* declares a name that is not the key of the block; it fails with a
\* ValueError, before any Step is constructed.  A class declared by the
\* file is dropped unchecked, and a name or class of the block itself is
\* handed on as it is.
C12_FileNameChecked ==
    cpc # "start" =>
        /\ cpc = "failed" <=> \E k \in DOMAIN cin.steps : FileDeclaresOther(cin, k)
        /\ cpc = "failed" =>
              /\ cexc = <<NameMismatch>>
              /\ cexc[1].type = "ValueError"
              /\ attrs = NoConfig
              /\ handed = NoConfig
        /\ cpc = "done" =>
              /\ DOMAIN handed["steps"] = DOMAIN cin.steps
              /\ \A k \in DOMAIN cin.steps :
                    LET b == cin.steps[k]
                        h == handed["steps"][k]
                        f == IF "config_file" \in DOMAIN b
                             THEN load_config_file(b["config_file"])
                             ELSE EmptyConfig
                    IN  /\ DOMAIN h = (DOMAIN b) \cup ((DOMAIN f) \ {"name", "class"})
                        /\ \A x \in DOMAIN h :
                              h[x] = IF x \in DOMAIN b THEN b[x] ELSE f[x]

\* The block of sub1 names the file of sub2, the block of sub2 is in
\* order: the building has failed and no Step was constructed.
C12_Witness ==
    /\ cpc = "failed"
    /\ DOMAIN cin.steps = StepKeys
    /\ "config_file" \in DOMAIN cin.steps["sub1"]
    /\ cin.steps["sub1"]["config_file"] = "sub2.cfg"
    /\ ~FileDeclaresOther(cin, "sub2")
    /\ ~BlockRedeclares(cin, "sub1")
    /\ cexc = <<NameMismatch>>
    /\ attrs = NoConfig

(***************************************************************************)
(*                       PROPERTIES OF THE FLAG                            *)
(***************************************************************************)

NoRemoteParameters(c) ==
    /\ c.input # "none"
    /\ \/ IF c.path = "cmdline" THEN LookupDisabled(c) ELSE c.env \in truths
       \/ c.input = "unopenable"
       \/ c.answer \in {"err", "na"}

C15_UpdateOwnParsIdempotent ==
    (call.fn = "update_own_pars" /\ ret # <<>>) =>
        get_pars(ret[1]) = get_pars(call.self)

\* The step had a word for save_results and a FromCommandLine suffix: its
\* parameters are the same after the update, its attributes are not.
C15_Witness ==
    /\ call.fn = "update_own_pars"
    /\ ret # <<>>
    /\ DOMAIN call.self = {"name", "save_results", "suffix"}
    /\ call.self["save_results"] = Plain("yes")
    /\ call.self["suffix"] = FromCommandLine("b")
    /\ ret[1]["save_results"] = Plain("True")
    /\ ret[1]["suffix"] = Plain("b")
    /\ get_pars(ret[1]) = [save_results |-> Plain("True"), suffix |-> Plain("b")]

\* C16: update_pars changes only parameters that are both in the mapping
\* given and in the current get_pars(): every other attribute keeps its
\* value, no attribute is created, and no error is raised.
C16_UpdateParsFrame ==
    (call.fn = "update_pars" /\ ret # <<>>) =>
        LET before == call.self
            after == ret[1]
            existing == DOMAIN get_pars(before)
        IN  /\ DOMAIN after = DOMAIN before
            /\ \A k \in DOMAIN before :
                  after[k] = IF k \in existing \cap DOMAIN call.parameters
                             THEN call.parameters[k] ELSE before[k]

\* The mapping names save_results, which the step has, suffix, which it
\* lacks, its name and a key of no step: only save_results has changed.
C16_Witness ==
    /\ call.fn = "update_pars"
    /\ ret # <<>>
    /\ DOMAIN call.self = {"name", "save_results", "output_dir"}
    /\ DOMAIN call.parameters = {"save_results", "suffix", "name", "bogus"}
    /\ call.self["save_results"] = Plain("False")
    /\ ret[1] = [call.self EXCEPT !["save_results"] = Plain("True")]


(***************************************************************************)
(* Output paths.                                                           *)
(***************************************************************************)

\* An output path was asked for, with no ext given, of a step that declares
\* no output_ext and finds no output_dir.
PathCase(basepath, sfx, components) ==
    /\ call.fn = "_make_output_path"
    /\ ret # <<>>
    /\ call.basepath = basepath
    /\ call.ext = None
    /\ call.tree.output_ext[call.step] = None
    /\ search_attr(call.tree.output_dir, call.step) = None
    /\ call.suffix = sfx
    /\ call.components = components

\* C17: with no output_dir, no ext and no output_ext, the basepath
\* "abc.fits" with the suffix "cal" gives "abc_cal.fits"; with the suffix
\* False it gives "abc.fits", and "abc_1.fits" with the component "1"; with
\* the suffix "cal" and the component "1" it gives "abc_1_cal.fits".
C17_PathFormat ==
    /\ PathCase("abc.fits", "cal", <<>>) => ret[1].path = "abc_cal.fits"
    /\ PathCase("abc.fits", False, <<>>) => ret[1].path = "abc.fits"
    /\ PathCase("abc.fits", False, <<"1">>) => ret[1].path = "abc_1.fits"
    /\ PathCase("abc.fits", "cal", <<"1">>) => ret[1].path = "abc_1_cal.fits"

C17_Witness ==
    /\ PathCase("abc.fits", "cal", <<"1">>)
    /\ ret[1].path = "abc_1_cal.fits"

\* The nearest value of an attribute that is not None, on the step asked
\* or, for the child C, on its parent P.
Nearest(attr) ==
    IF attr[call.step] # None THEN attr[call.step]
    ELSE IF call.step = "C" THEN attr["P"]
    ELSE None

PathAsked == call.fn = "_make_output_path" /\ ret # <<>>

\* C18: the basepath of an output path is the basepath given; else, when
\* search_output_file is set, the nearest output_file that is not None;
\* else the nearest input file name that is not None; else
\* step_<name><output_ext>.  The path made starts, after the output
\* directory, with the stem of that basepath.  With search_output_file
\* unset no output_file is the basepath.
C18_Basepath ==
    PathAsked =>
        LET t == call.tree
            r == ret[1]
            stem == splitext(split_tail(r.basepath)).root
            k == IF search_attr(t.output_dir, call.step) = None THEN 0 ELSE 2
        IN  /\ Flatten(r.basepath) =
                  IF call.basepath # None THEN call.basepath
                  ELSE IF t.search_output_file[call.step]
                          /\ Nearest(t.output_file) # None
                       THEN Nearest(t.output_file)
                  ELSE IF Nearest(t.input_filename) # None
                       THEN Nearest(t.input_filename)
                  ELSE "step_" \o call.step \o
                       (IF t.output_ext[call.step] = None THEN "None"
                        ELSE t.output_ext[call.step])
            /\ r.exc = <<>> =>
                  SubSeq(r.parts, k + 1, k + Len(stem)) = stem
            /\ (~t.search_output_file[call.step] /\ call.basepath = None) =>
                  Flatten(r.basepath) \notin {"pout.fits", "out.fits"}

\* The child C, given no basepath and searching, took the output file of
\* its parent.
C18_Witness ==
    /\ PathAsked
    /\ call.step = "C"
    /\ call.basepath = None
    /\ call.tree.search_output_file["C"]
    /\ call.tree.output_file["C"] = None
    /\ call.tree.output_file["P"] = "pout.fits"
    /\ call.tree.input_filename["C"] = "m.fits"
    /\ ret[1].path = "pout_c.fits"

\* C19: the suffix of an output path is the suffix given when it is not
\* None; else the nearest suffix attribute that is not None, the step's own
\* before its parent's; else the lower-cased name of the step.  With the
\* suffix False the path ends with the stem, the components and the
\* extension; with any other it ends with "_", the suffix and the extension.
C19_Suffix ==
    PathAsked =>
        LET t == call.tree
            r == ret[1]
            n == Len(r.parts)
            comp == 2 * Len(call.components)
            stem == splitext(split_tail(r.basepath)).root
        IN  /\ r.suffix =
                  IF call.suffix # None THEN call.suffix
                  ELSE IF Nearest(t.suffix) # None THEN Nearest(t.suffix)
                  ELSE IF call.step = "P" THEN "p" ELSE "c"
            /\ (call.suffix = None /\ t.suffix[call.step] # None) =>
                  r.suffix = t.suffix[call.step]
            /\ (r.exc = <<>> /\ r.suffix # False) =>
                  SubSeq(r.parts, n - 3, n - 1) = <<"_", r.suffix, ".">>
            /\ (r.exc = <<>> /\ r.suffix = False) =>
                  /\ r.parts[n - 1] = "."
                  /\ SubSeq(r.parts, n - 1 - comp - Len(stem), n - 2 - comp)
                        = stem

\* The child C, given no suffix and having none, took the suffix of its
\* parent.
C19_Witness ==
    /\ PathAsked
    /\ call.step = "C"
    /\ call.suffix = None
    /\ call.tree.suffix["C"] = None
    /\ call.tree.suffix["P"] = "psfx"
    /\ call.basepath = "abc.fits"
    /\ call.ext = None
    /\ call.components = <<>>
    /\ ret[1].path \in {"abc_psfx.fits", "abc_psfx.asdf",
                        "outdir/abc_psfx.fits", "outdir/abc_psfx.asdf"}


(***************************************************************************)
(* Step.call and the applied logging configuration.                        *)
(***************************************************************************)

Ops(op) == { j \in DOMAIN logops : logops[j].op = op }

Applies(c) == Cardinality({ j \in Ops("apply") : logops[j].cfg = c })

Undos(c) == Cardinality({ j \in Ops("undo") : logops[j].cfg = c })

\* The configurations applied so far, and by the call k.
AppliedCfgs == { logops[j].cfg : j \in Ops("apply") }

AppliedBy(k) == { logops[j].cfg : j \in { m \in Ops("apply") : logops[m].by = k } }

\* The calls that have returned or raised.
Finished == { logops[j].by : j \in Ops("return") \cup Ops("raise") }

\* No two configurations are applied and not undone.
AtMostOneApplied ==
    Cardinality({ c \in AppliedCfgs : Applies(c) > Undos(c) }) <= 1

\* A configuration that is not the logcfg keyword's is applied only when
\* none is applied.
AppliesOnlyWhenFree ==
    \A j \in Ops("apply") :
        (j > 1 /\ logops[j].cfg[2] # "kwarg") => logops[j - 1].applied = <<>>

\* What a call that is over applied was undone once, by that call.
UndoneOnceByItsCall ==
    \A k \in Finished : \A c \in AppliedBy(k) :
        /\ Undos(c) = 1
        /\ \A j \in Ops("undo") : logops[j].cfg = c => logops[j].by = k

\* A call made while a configuration was applied left it applied.
OuterLeftApplied ==
    \A i \in Ops("call"), j \in Ops("return") \cup Ops("raise") :
        (logops[i].by = logops[j].by /\ logops[i].applied # <<>>)
            => logops[j].applied = logops[i].applied

\* C20: Step.call keeps the flag of the applied logging configuration
\* consistent: at most one configuration is applied at a time; a call
\* applies one only when none is applied or when it was given one; what a
\* call applied is undone exactly once before the call is over, and only
\* by that call; a call made while a configuration is applied leaves it
\* applied.
C20_FlagConsistent ==
    /\ AtMostOneApplied
    /\ AppliesOnlyWhenFree
    /\ UndoneOnceByItsCall
    /\ OuterLeftApplied

(***************************************************************************)
(* The reserved parameters.                                                *)
(***************************************************************************)

ParserBuilt == call.fn = "_build_arg_parser_from_spec" /\ ret # <<>>

\* A leaf of the schema is named as a reserved parameter is.
DeclaresReserved ==
    \E j \in DOMAIN call.spec :
        call.spec[j] \in {<<"debug">>, <<"logcfg">>, <<"verbose">>}

\* C21 as stated: a schema that declares debug, logcfg or verbose is
\* rejected with SchemaError.
C21_RejectedSchemaError ==
    (ParserBuilt /\ DeclaresReserved) =>
        /\ ret[1].exc # <<>>
        /\ ret[1].exc[1].type = "SchemaError"

\* C21: a schema with a leaf whose dotted path is debug, logcfg or verbose
\* is rejected with ValueError when the parser is built, the leaves before
\* it having been added; any other schema is accepted and every leaf
\* added, a reserved name below a section included.
C21_RejectedValueError ==
    ParserBuilt =>
        IF DeclaresReserved
        THEN /\ ret[1].exc # <<>>
             /\ ret[1].exc[1].type = "ValueError"
             /\ Len(ret[1].added) < Len(call.spec)
        ELSE /\ ret[1].exc = <<>>
             /\ Len(ret[1].added) = Len(call.spec)

\* A schema that declares verbose after another parameter was rejected.
C21_Witness ==
    /\ ParserBuilt
    /\ call.spec = << <<"par1">>, <<"verbose">> >>
    /\ ret[1].exc # <<>>
    /\ ret[1].exc[1].type = "ValueError"
    /\ ret[1].added = <<"--par1">>

(***************************************************************************)
(* preserve_step_pars.                                                     *)
(***************************************************************************)

\* C22: when the block of preserve_step_pars(step) has been left, by its
\* end or by an exception, get_pars() is the mapping saved on entry.
C22_ParsRestored ==
    (call.fn = "preserve_step_pars" /\ ret # <<>>) =>
        get_pars(attrs) = call.saved[1]

(***************************************************************************)
(* The primary input.                                                      *)
(***************************************************************************)

PrimarySet == call.fn = "set_primary_input" /\ ret # <<>>

\* C23 as stated: run, which sets the primary input exclusively,
\* establishes the input name and directory for the outermost step only:
\* those of the child C are left as they were.
C23_OnlyOutermost ==
    (PrimarySet /\ call.exclusive /\ call.step = "C") =>
        /\ ret[1].input_filename["C"] = call.tree.input_filename["C"]
        /\ ret[1].input_dir["C"] = call.tree.input_dir["C"]

\* C23: set exclusively, as run does, the input name (the input directory)
\* of a step is established from a str or a data model (from an existing
\* file) when neither the step nor an ancestor has one, for the child C as
\* for the root P; when the step or an ancestor has one, nothing changes,
\* and the default output name of a child without a name of its own is
\* the ancestor's.  No other step than the one asked is ever changed.  Set
\* with exclusive=False, the name and directory of the step are
\* overwritten.
C23_PrimaryInput ==
    PrimarySet =>
        LET t == call.tree
            r == ret[1]
            s == call.step
            o == call.obj.items[1]
            one == ~call.obj.isList
            had(attr) == attr[s] # None \/ (s = "C" /\ attr["P"] # None)
            named == [input_filename |-> r.input_filename,
                      output_ext |-> [x \in Steps |-> None]]
        IN  /\ \A x \in Steps \ {s} :
                  /\ r.input_filename[x] = t.input_filename[x]
                  /\ r.input_dir[x] = t.input_dir[x]
            /\ call.exclusive =>
                  /\ r.input_filename = set_primary_input(t.input_filename, s, call.obj)
                  /\ had(t.input_filename) => r.input_filename = t.input_filename
                  /\ had(t.input_dir) => r.input_dir = t.input_dir
                  /\ (s = "C" /\ t.input_filename["C"] = None
                        /\ t.input_filename["P"] # None) =>
                        Flatten(default_output_file(named, "C"))
                            = t.input_filename["P"]
            /\ (~call.exclusive \/ ~had(t.input_filename)) =>
                  /\ (one /\ o \in {"abc.fits", "dir/abc.fits", "nofile"}) =>
                        r.input_filename[s] = o
                  /\ (one /\ o = "m") => r.input_filename[s] = "m.fits"
                  /\ (~one \/ o = "pl") => r.input_filename = t.input_filename
            /\ (~call.exclusive \/ ~had(t.input_dir)) =>
                  /\ (one /\ o = "abc.fits") => r.input_dir[s] = ""
                  /\ (one /\ o = "dir/abc.fits") => r.input_dir[s] = "dir"
                  /\ (~one \/ o \in {"nofile", "m", "pl"}) =>
                        r.input_dir = t.input_dir

\* The child C, whose parent has an input name and directory, was given an
\* existing file exclusively: its own name and directory are unset.
C23_Witness ==
    /\ PrimarySet
    /\ call.exclusive
    /\ call.step = "C"
    /\ call.obj = Scalar("dir/abc.fits")
    /\ call.tree.input_filename = [x \in Steps |-> IF x = "P" THEN "a.fits" ELSE None]
    /\ call.tree.input_dir = [x \in Steps |-> IF x = "P" THEN "pdir" ELSE None]
    /\ ret[1].input_filename["C"] = None
    /\ ret[1].input_dir["C"] = None

(***************************************************************************)
(* The list of the reference files used.                                   *)
(***************************************************************************)

\* The calls of finalize_result and the saves of the run under way.
EventsOf(t, ev) == { j \in DOMAIN trace[t] : trace[t][j].ev = ev }

\* C24: in every run the list of the reference files used is empty when
\* process starts; finalization is given only what process recorded on
\* this step in this run; after a run that returned without saving the
\* list of the step is empty.
C24_NoLeak ==
    \A t \in RunThreads :
        LET f == frame[t]
            s == f.step
        IN  /\ f.pc = "process" => reference_files_used[s] = <<>>
            /\ \A j \in EventsOf(t, "finalize") :
                  trace[t][j].refs \in {<<>>, <<RefEntry(s, f.n)>>}
            /\ (f.pc = "returned" /\ EventsOf(t, "save") = {}) =>
                  reference_files_used[s] = <<>>

\* In the second run, of P, process recorded a file, finalization was
\* given that one only, and the list is empty after the return.
C24_Witness ==
    /\ frame[1].pc = "returned"
    /\ frame[1].n = 2
    /\ frame[1].step = "P"
    /\ \E j \in EventsOf(1, "finalize") :
          trace[1][j].refs = <<RefEntry("P", 2)>>
    /\ EventsOf(1, "save") = {}
    /\ reference_files_used["P"] = <<>>

(***************************************************************************)
(* get_reference_file.                                                     *)
(***************************************************************************)

RefAsked == call.fn = "get_reference_file" /\ ret # <<>>

\* C25: when the service answers "N/A" nothing is raised and the one pair
\* (type, "N/A") is recorded.  With an override the service is not asked:
\* a data model is returned as it is with one pair recorded, a path that
\* is not blank is used with one pair recorded, a blank one gives the
\* empty string and records nothing.
C25_Overrides ==
    RefAsked =>
        LET r == ret[1]
            o == call.override
        IN  /\ (o = None /\ call.answer = "N/A") =>
                  /\ r.exc = <<>>
                  /\ r.used = <<<<"flat", "N/A">>>>
            /\ o # None => ~r.asked
            /\ o = "m" => (r.value = "m" /\ Len(r.used) = 1)
            /\ o \in {"N/A", "ref.fits", "/refs/flat.fits"} => Len(r.used) = 1
            /\ o \in {"", " "} => (r.value = "" /\ r.used = <<>> /\ r.exc = <<>>)

(***************************************************************************)
(* Saving without an output path.                                          *)
(***************************************************************************)

\* The run of thread t was left by the AttributeError of a result for
\* which no output path could be made.
NoPathRaised(t) ==
    /\ frame[t].pc = "raised"
    /\ Len(trace[t]) >= 2
    /\ trace[t][Len(trace[t]) - 1].ev = "save"
    /\ trace[t][Len(trace[t])].ev = "raise"
    /\ trace[t][Len(trace[t])].in = <<NoneHasNoStartswith>>

\* C26: when no output path can be made for a result that is to be saved,
\* a data model included, run raises nothing.
C26_NoPathNotFatal == \A t \in RunThreads : ~NoPathRaised(t)

(***************************************************************************)
(* search_attr.                                                            *)
(***************************************************************************)

Searched == call.fn = "search_attr" /\ ret # <<>>

\* The places of the chain whose attribute exists and is not None.
Holders(chain) == { i \in 1..Len(chain) : chain[i] \notin {NoAttr, None} }

Least(S) == CHOOSE i \in S : \A j \in S : i <= j

Greatest(S) == CHOOSE i \in S : \A j \in S : j <= i

\* C27: search_attr returns the value of the nearest step whose attribute
\* exists and is not None, with parent_first that of the step closest to
\* the root, and the default when no step of the chain has such a value.
C27_SearchAttr ==
    Searched =>
        LET H == Holders(call.chain)
        IN  ret[1] = IF H = {} THEN call.default
                     ELSE IF call.parent_first THEN call.chain[Greatest(H)]
                     ELSE call.chain[Least(H)]

\* The same, the default being promised only to a search that is not
\* parent_first or whose step lacks the attribute.
SearchAttrButDefault ==
    Searched =>
        LET H == Holders(call.chain)
        IN  ret[1] = IF H = {}
                     THEN IF call.parent_first /\ call.chain[1] # NoAttr
                          THEN None ELSE call.default
                     ELSE IF call.parent_first THEN call.chain[Greatest(H)]
                     ELSE call.chain[Least(H)]

(***************************************************************************)
(* The marks of a skipped step.                                            *)
(***************************************************************************)

Skipped == call.fn = "skip_branch" /\ ret # <<>> /\ Len(call.args) = 1

\* The objects of the first argument that are to be marked.
SkipTargets ==
    IF call.alias # None
       /\ call.args[1].kind \in {"model", "sequence", "library"}
    THEN call.args[1].members ELSE <<>>

\* The place of the first target whose marking raises something else than
\* an AttributeError, one past the last target when there is none.
FirstRefusal ==
    LET R == { i \in 1..Len(SkipTargets) : SkipTargets[i] = "strict" }
    IN  IF R = {} THEN Len(SkipTargets) + 1 ELSE Least(R)

IsMarkable(o) == o = "m"

IsBare(o) == o = "bare"

FailingStages == {"pre", "process", "post"}

\* C29: when a pre-hook, process or a post-hook raises, nothing of the
\* lifecycle is executed after it and the exception leaves run.
C29_FailureStops ==
    \A t \in RunThreads : \A j \in 1..Len(trace[t]) :
        (trace[t][j].ev \in FailingStages /\ trace[t][j].out = Raised) =>
            /\ Len(trace[t]) = j + 1
            /\ trace[t][j + 1].ev = "raise"
            /\ frame[t].pc = "raised"
            /\ trace[t][j].ev = "process" => trace[t][j + 1].in # <<>>

\* Process returned and the second post-hook raised after the first had
\* returned: the run is over with the exception.
C29_Witness ==
    /\ frame[1].pc = "raised"
    /\ \E j \in 1..Len(trace[1]) :
          /\ trace[1][j].ev = "post"
          /\ trace[1][j].i = 2
          /\ trace[1][j].out = Raised
    /\ \E j \in 1..Len(trace[1]) :
          trace[1][j].ev = "process" /\ trace[1][j].out # Raised

(***************************************************************************)
(* Finalization.                                                           *)
(***************************************************************************)

\* The run of thread t has returned: there was one finalization, after
\* every post-hook and before every save, and it was given the result
\* that was returned.
FinalizedOnce(t) ==
    LET tr == trace[t]
        F == EventsOf(t, "finalize")
    IN  /\ Cardinality(F) = 1
        /\ \A j \in F :
              /\ tr[j].out # Raised
              /\ tr[j].in = <<frame[t].result>>
              /\ \A x \in EventsOf(t, "post") : x < j
              /\ \A x \in EventsOf(t, "skipbranch") \cup EventsOf(t, "process") :
                    x < j
              /\ \A x \in EventsOf(t, "save") \cup EventsOf(t, "nopath") : j < x

\* The objects that are to be finalized for the result v, and by whom.
ToFinalize(v) ==
    IF v.isList THEN [by |-> "step", objs |-> v.items]
    ELSE IF IsLibrary(v.items[1]) THEN [by |-> "library", objs |-> v.items]
    ELSE [by |-> "step", objs |-> v.items]

\* C30: in a run that returned every result object was finalized exactly
\* once, after the last post-hook and before any save: a model library
\* by its own finalize_result, a sequence member by member, any other
\* result as one object; so too when the step was skipped.
C30_FinalizedOnce ==
    \A t \in RunThreads :
        frame[t].pc = "returned" =>
            /\ FinalizedOnce(t)
            /\ \A j \in EventsOf(t, "finalize") :
                  /\ trace[t][j].by = ToFinalize(frame[t].result).by
                  /\ trace[t][j].objs = ToFinalize(frame[t].result).objs

\* The same for the results that are no str.
FinalizedOnceButStr ==
    \A t \in RunThreads :
        (frame[t].pc = "returned"
            /\ (frame[t].result.isList \/ ~IsStr(frame[t].result.items[1]))) =>
            /\ FinalizedOnce(t)
            /\ \A j \in EventsOf(t, "finalize") :
                  /\ trace[t][j].by = ToFinalize(frame[t].result).by
                  /\ trace[t][j].objs = ToFinalize(frame[t].result).objs

\* A str is finalized character by character, whatever the run.
StrByCharacter ==
    \A t \in RunThreads : \A j \in EventsOf(t, "finalize") :
        trace[t][j].in = <<Scalar("a.fits")>> =>
            trace[t][j].objs = <<"a", ".", "f", "i", "t", "s">>

(***************************************************************************)
(* step_from_cmdline.                                                      *)
(***************************************************************************)

\* The entries of the history that end a call of step_from_cmdline.
CmdlineEnds == { j \in DOMAIN logops : logops[j].op \in {"return", "raise"} }

\* The debugger was entered in the call that ends at j.
DebuggerEntered(j) ==
    \E i \in DOMAIN logops :
        logops[i].op = "post_mortem" /\ logops[i].by = logops[j].by

\* C31: when step_from_cmdline has returned or raised, no logging
\* configuration remains applied.
C31_LogUndone ==
    \A j \in CmdlineEnds : logops[j].applied = <<>>

\* The same for the exits that are not by a SystemExit of the argument
\* parser, and a call that entered the debugger returns.
LogUndoneButSystemExit ==
    \A j \in CmdlineEnds :
        /\ (logops[j].op = "return" \/ logops[j].cfg[2] = "Exception"
               \/ ~\E i \in DOMAIN logops :
                      /\ logops[i].op = "apply"
                      /\ logops[i].by = logops[j].by) =>
              logops[j].applied = <<>>
        /\ DebuggerEntered(j) => logops[j].op = "return"

(***************************************************************************)
(* The marks of the command line.                                          *)
(***************************************************************************)

NestedBuilt == call.fn = "from_cmdline_nested" /\ ret # <<>>

\* The value at the dotted key in the config, <<>> when there is none.
RECURSIVE ValueAt(_, _)
ValueAt(config, key) ==
    IF Head(key) \notin DOMAIN config THEN <<>>
    ELSE IF Tail(key) = <<>> THEN <<config[Head(key)]>>
    ELSE IF IsSectionValue(config[Head(key)])
         THEN ValueAt(config[Head(key)], Tail(key))
         ELSE <<>>

\* Some value of x, at whatever depth, is a FromCommandLine.
RECURSIVE HasFromCommandLine(_)
HasFromCommandLine(x) ==
    IF IsSectionValue(x) THEN \E k \in DOMAIN x : HasFromCommandLine(x[k])
    ELSE x.cl

\* The dotted keys of the options.
OptionKeys == { NestedOptions[i].key : i \in DOMAIN NestedOptions }

\* Every option given is in the merged config at its dotted key, as a
\* FromCommandLine, and an option not given has left what the file had.
OptionsTagged ==
    /\ \A i \in DOMAIN call.opts :
          ValueAt(ret[1].merged, call.opts[i].key)
              = <<FromCommandLine(call.opts[i].val)>>
    /\ \A key \in OptionKeys :
          (\A i \in DOMAIN call.opts : call.opts[i].key # key) =>
              \/ ValueAt(ret[1].merged, key) = ValueAt(call.config, key)
              \/ /\ ValueAt(call.config, key) = <<>>
                 /\ ~HasFromCommandLine(ValueAt(ret[1].merged, key)[1])

\* C32: the values of the command line are FromCommandLine in the merged
\* config, and no attribute of the step made of it and no value of
\* get_pars is a FromCommandLine, at any depth.
C32_NeverPersisted ==
    NestedBuilt =>
        /\ OptionsTagged
        /\ ~HasFromCommandLine(ret[1].attrs)
        /\ ~HasFromCommandLine(ret[1].pars)

\* The same for the values of the keys of the config itself.
NeverPersistedAtTop ==
    NestedBuilt =>
        /\ OptionsTagged
        /\ \A k \in DOMAIN ret[1].attrs :
              ~IsSectionValue(ret[1].attrs[k]) => ~ret[1].attrs[k].cl
        /\ \A k \in DOMAIN ret[1].pars :
              ~IsSectionValue(ret[1].pars[k]) => ~ret[1].pars[k].cl

(***************************************************************************)
(* Two runs at the same time.                                              *)
(***************************************************************************)

\* What process recorded in the run of thread t.
OwnRecorded(t) ==
    IF EventsOf(t, "process") = {} THEN <<>>
    ELSE trace[t][CHOOSE j \in EventsOf(t, "process") : TRUE].refs

\* The two runs are on two instances.
TwoInstances ==
    \E t \in AllThreads : \E u \in AllThreads \ {t} :
        \/ frame[u].pc = "idle"
        \/ frame[t].step # frame[u].step

\* C33: with the two runs on two instances, every finalization is given
\* the list of the reference files its own process recorded.
C33_IndependentSafe ==
    TwoInstances =>
        \A t \in AllThreads : \A j \in EventsOf(t, "finalize") :
            trace[t][j].refs = OwnRecorded(t)

\* Two runs on the instance P: the process of the first recorded a file,
\* and its finalization was given a list that is not what it recorded.
C33_Witness ==
    /\ frame[1].step = "P"
    /\ frame[2].step = "P"
    /\ OwnRecorded(1) = <<RefEntry("P", frame[1].n)>>
    /\ \E j \in EventsOf(1, "finalize") :
          trace[1][j].refs # OwnRecorded(1)

\* The finalization of a run was given an entry of the other run.
MixedWitness ==
    /\ frame[1].step = frame[2].step
    /\ \E j \in EventsOf(1, "finalize") : \E x \in DOMAIN trace[1][j].refs :
          trace[1][j].refs[x].run # frame[1].n

(***************************************************************************)
(* The prefetch of the reference files.                                    *)
(***************************************************************************)

\* C34: in a run that is not skipped _precache_references is called when
\* prefetch_references is set, there are arguments after the pre-hooks
\* and the step has reference file types, and only then; it is called
\* once, with the first argument, after the pre-hooks and just before
\* process.  In a skipped run it is never called.
C34_Prefetch ==
    \A t \in RunThreads :
        LET tr == trace[t]
            s == frame[t].step
            pc == EventsOf(t, "precache")
        IN  /\ EventsOf(t, "process") = {} => pc = {}
            /\ EventsOf(t, "skipbranch") # {} => pc = {}
            /\ \A j \in EventsOf(t, "process") :
                  IF /\ prefetch_references(s)
                     /\ tr[j].in # <<>>
                     /\ reference_file_types(s) # {}
                  THEN /\ pc = {j - 1}
                       /\ tr[j - 1].in = <<tr[j].in[1]>>
                       /\ \A x \in EventsOf(t, "pre") : x < j - 1
                  ELSE pc = {}

\* The child C, not skipped, with a pre-hook that replaced the argument:
\* the prefetch was given what the hook returned, and process came next.
C34_Witness ==
    /\ frame[1].step = "C"
    /\ frame[1].pc = "returned"
    /\ \E j \in EventsOf(1, "precache") :
          /\ trace[1][j].in = <<PreHookValue(1)>>
          /\ trace[1][j + 1].ev = "process"

(***************************************************************************)
(* update_pars and the key "steps".                                        *)
(***************************************************************************)

TreeUpdated == call.fn = "update_pars_steps" /\ ret # <<>>

\* The attributes new are those of old, but for the parameters of the
\* schema that the mapping given names, which have the value given.
OwnUpdate(old, given, new) ==
    /\ DOMAIN new = DOMAIN old
    /\ \A k \in DOMAIN old :
          new[k] = IF k \in DOMAIN given /\ k \in Keys THEN given[k] ELSE old[k]

\* C35: the value of the key "steps" is applied child by child through
\* the update_pars of the child, which ignores the keys it does not
\* know; the children stay the steps they were; on a step without the
\* key "steps" the entry is ignored.
C35_StepsSpecial ==
    TreeUpdated =>
        LET old == call.self
            given == call.parameters
            new == ret[1]
        IN  /\ OwnUpdate(old.pars, given.pars, new.pars)
            /\ old.steps = <<>> => new.steps = <<>>
            /\ old.steps # <<>> =>
                  /\ new.steps # <<>>
                  /\ DOMAIN new.steps[1] = ChildNames
                  /\ \A n \in ChildNames :
                        /\ new.steps[1][n].steps = <<>>
                        /\ OwnUpdate(old.steps[1][n].pars,
                                     IF given.steps # <<>>
                                        /\ n \in DOMAIN given.steps[1]
                                     THEN given.steps[1][n].pars
                                     ELSE EmptyConfig,
                                     new.steps[1][n].pars)

\* The child c1 is given a suffix and a key it does not know, c2 nothing:
\* c1 has the suffix and no new key, c2 is as it was.
C35_Witness ==
    /\ TreeUpdated
    /\ call.self.steps # <<>>
    /\ call.parameters.steps # <<>>
    /\ DOMAIN call.parameters.steps[1] = {"c1"}
    /\ DOMAIN call.parameters.steps[1]["c1"].pars = {"suffix", "bogus"}
    /\ call.self.steps[1]["c1"].pars["suffix"] = Plain(None)
    /\ ret[1].steps[1]["c1"].pars["suffix"] = Plain("x")
    /\ "bogus" \notin DOMAIN ret[1].steps[1]["c1"].pars
    /\ ret[1].steps[1]["c2"] = call.self.steps[1]["c2"]

(***************************************************************************)
(* The extension of an output path.                                        *)
(***************************************************************************)

\* The parts of an extension without its leading period.
NoLeadingPeriod(ts) == IF ts # <<>> /\ ts[1] = "." THEN Tail(ts) ELSE ts

\* The extension the claim gives the path asked for: the ext argument,
\* else output_ext, else that of the basepath; <<>> when there is none.
ExtensionDue ==
    IF call.ext # None THEN NoLeadingPeriod(Tokens(call.ext))
    ELSE IF call.tree.output_ext[call.step] # None
    THEN NoLeadingPeriod(Tokens(call.tree.output_ext[call.step]))
    ELSE NoLeadingPeriod(splitext(split_tail(ret[1].basepath)).ext)

\* The path ends with a period and the extension due.
EndsWithExtensionDue ==
    LET p == ret[1].parts
        e == ExtensionDue
    IN  /\ Len(p) > Len(e)
        /\ SubSeq(p, Len(p) - Len(e) + 1, Len(p)) = e
        /\ p[Len(p) - Len(e)] = "."

\* C36: the extension of the path is the ext argument, else output_ext,
\* else that of the basepath, without leading period, and a path is
\* returned whatever the three are.
C36_Extension ==
    PathAsked => (ret[1].exc = <<>> /\ EndsWithExtensionDue)

\* The same where one of the three gives an extension; where none does,
\* the AttributeError is raised.
ExtensionWhereThereIsOne ==
    PathAsked =>
        IF ExtensionDue # <<>>
        THEN ret[1].exc = <<>> /\ EndsWithExtensionDue
        ELSE ret[1].exc = <<NoneHasNoStartswith>>

\* No ext, no output_ext and the basepath "abc": nothing is returned.
NoExtensionAtAll ==
    /\ PathAsked
    /\ call.ext = None
    /\ call.tree.output_ext[call.step] = None
    /\ call.basepath = "abc"
    /\ ret[1].exc = <<NoneHasNoStartswith>>

(***************************************************************************)
(* The suffix a run leaves on the step.                                    *)
(***************************************************************************)

\* C37: a step that a run has taken past its setup has a suffix; a suffix
\* that was None becomes the lower-cased name of the step, by the start of
\* a run of that step and by nothing else; a suffix that is set is never
\* changed, during the run or after it.
C37_SuffixSettled ==
    [][ \A s \in Steps :
          /\ suffix[s] # None => suffix'[s] = suffix[s]
          /\ suffix'[s] # suffix[s] =>
                /\ suffix'[s] = lower(s)
                /\ \E t \in AllThreads :
                      /\ frame'[t].n # frame[t].n
                      /\ frame'[t].step = s
          /\ (\E t \in AllThreads :
                 frame'[t].step = s /\ frame'[t].pc # "idle")
                => suffix'[s] # None
      ]_vars

\* P, built without a suffix, has run and returned: its suffix is "p"; Q,
\* never run, still has none.
C37_Witness ==
    /\ frame[1].step = "P"
    /\ frame[1].pc = "returned"
    /\ suffix["P"] = "p"
    /\ suffix["Q"] = None

(***************************************************************************)
(* The input name over several runs.                                       *)
(***************************************************************************)

\* The attributes default_output_file reads, with the input names ifn.
NamedBy(ifn) ==
    [input_filename |-> ifn, output_ext |-> [x \in Steps |-> None]]

SaveAttempts(t) ==
    SelectSeq(trace[t], LAMBDA e : e.ev \in {"save", "nopath"})

\* The positions up to n of the results that are data models, model
\* libraries or have a save method, in order.
DuePositions(items, n) ==
    LET due(j) == ToSaveModel(items[j]) \/ HasSave(items[j])
        F[k \in 0..Len(items)] ==
            IF k = 0 THEN <<>>
            ELSE IF due(k) THEN Append(F[k - 1], k) ELSE F[k - 1]
    IN  F[n]

\* C39: the attempts to save are of the results in their order, one for
\* each result that is a data model or has a save method and none for any
\* other; each is made with the position of the result (from 0) when there
\* are several results, and with no index (-1) when the result is a single
\* object or a list of one.  While the results are gone through the
\* attempts are those of the results passed; a run that came to its end
\* with saving wanted has made those of all the results.
C39_SaveEach ==
    \A t \in RunThreads :
        LET f == frame[t]
            s == f.step
            items == ResultsToSave(f.result)
            att == SaveAttempts(t)
            all == DuePositions(items, Len(items))
        IN  f.pc # "idle" =>
                /\ Len(att) <= Len(all)
                /\ \A k \in DOMAIN att :
                      /\ att[k].in = <<Scalar(items[all[k]])>>
                      /\ att[k].i = (IF Len(items) > 1 THEN all[k] - 1 ELSE -1)
                /\ f.pc = "save" => Len(att) = Len(DuePositions(items, f.i - 1))
                /\ (f.pc \in {"exit", "returned"} /\ SaveWanted(skip[s], save_results[s]))
                      => Len(att) = Len(all)

\* A run returned after saving the list of an object that cannot be saved
\* and one with a save method: one attempt, of the second, at position 1.
C39_Witness ==
    LET f == frame[1]
        att == SaveAttempts(1)
    IN  /\ f.pc = "returned"
        /\ f.result = List(<<"pl", "sv">>)
        /\ Len(att) = 1
        /\ att[1].ev = "save"
        /\ att[1].in = <<Scalar("sv")>>
        /\ att[1].i = 1

\* A run returned after saving a list of one data model: no index.
SavedListOfOne ==
    /\ frame[1].pc = "returned"
    /\ frame[1].result = List(<<"m">>)
    /\ Len(SaveAttempts(1)) = 1
    /\ SaveAttempts(1)[1].i = -1

(***************************************************************************)
(* The positional argument of the command line.                            *)
(***************************************************************************)

====
